---- MODULE Spec2Model ----
(***************************************************************************)
(* State-machine model of the chromium-bidi mapper: the per-target unblock *)
(* batch and Network/Fetch domain toggling of one CdpTarget, the intercept *)
(* registry of the NetworkStorage, and the BrowsingContextProcessor's      *)
(* handling of target and frame events.                                    *)
(*                                                                         *)
(* The mapper is single-threaded: every action                             *)
(* is one run of the event loop from an incoming event (a BiDi command, a  *)
(* CDP response, a CDP event) up to the point where every continuation it  *)
(* started is parked on an await.                                          *)
(***************************************************************************)
EXTENDS Integers, Sequences, FiniteSets, Bags, TLC

\* ------------------------------------------------------------------ bounds
MaxIntercepts == 1      \* intercepts registered at the same time
MaxRequests == 1        \* network requests that can be paused
MaxScripts == 1         \* matching preload scripts of the target
MaxCommands == 3        \* BiDi commands the client sends

MaxCalls == 3           \* addIntercept and removeIntercept calls on the storage
MaxRegistered == 2      \* intercepts registered when requestBlockedBy is asked
MaxPatterns == 1        \* url patterns of one intercept

MaxSessions == 3        \* targets the browser attaches (one session each)

MaxObjects == 3         \* NetworkRequest objects the storage makes
MaxMessages == 3        \* messages of the connection
MaxHandlers == 2        \* handlers set on the transport
MaxEvents == 3          \* events the targets' clients emit
MaxRedirects == 1       \* redirects of one request

InterceptIds == 1..MaxIntercepts
Requests == 1..MaxRequests
StorageTargetIds == {"t1", "t2"}

\* CDP sessions: the browser client's, and one per attached target.
Browser == 0
Sessions == 1..MaxSessions
\* The sessions network events come on, the ids of requests, the attempts of
\* one request and the fetch ids of paused requests.
RequestSessions == {1, 2}
RequestIds == {"r1", "r2"}
Attempts == 1..(MaxRedirects + 1)
FetchIds == {"f1"}
\* Target ids and frame ids: three contexts' and the mapper's own tab's.
ContextIds == {"A", "B", "C"}
selfTargetId == "self"
\* Browser context ids: the browser's default one, and two of the user's.
defaultUserContextId == "sentinel"
BrowserContextIds == {defaultUserContextId, "uc1", "uc2"}

\* ------------------------------------------------------------ vocabulary
Phases == {"beforeRequestSent", "responseStarted", "authRequired"}
PhaseSets == (SUBSET Phases) \ {{}}

ErrorKinds == {"close", "other"}
Outcomes == {"ok"} \cup ErrorKinds

\* The plain commands of the unblock batch, and its two composite entries.
SimpleCommands ==
    {"Runtime.enable", "Page.enable", "Page.setLifecycleEventsEnabled",
     "Security.setIgnoreCertificateErrors", "Target.setAutoAttach",
     "Runtime.runIfWaitingForDebugger"}
BatchEntries == SimpleCommands \cup {"toggleNetwork", "preloadScripts"}
Prerequisites == BatchEntries \ {"Runtime.runIfWaitingForDebugger"}

NoStages == [request |-> FALSE, response |-> FALSE, auth |-> FALSE]

VARIABLES
    subscribed,            \* some subscription covers network.* for the target
    intercepts,            \* NetworkStorage registry: intercept id -> phases
    networkDomainEnabled,  \* CdpTarget.#networkDomainEnabled
    fetchDomainStages,     \* CdpTarget.#fetchDomainStages
    unblocked,             \* CdpTarget.#unblocked: pending, success or error
    resolveCount,          \* calls of #unblocked.resolve
    batch,                 \* unblock batch: entry -> unsent, pending, settled
    batchPromise,          \* state of the Promise.all #unblock awaits
    scripts,               \* preload-script installs still in flight
    swallowed,             \* errors caught inside the batch's toggleNetwork
    tasks,                 \* toggleNetwork calls parked on a CDP response
    waiters,               \* deferred disables: requests still waited for
    paused,                \* requests with a non-empty interceptPhase
    cdpNetwork,            \* browser side: Network domain enabled
    cdpFetch,              \* browser side: Fetch domain enabled
    commands               \* BiDi commands received so far

\* NetworkStorage, as it synchronises interception itself (toggleInterception).
VARIABLES
    interceptMap,          \* NetworkStorage.#intercepts: id -> phases, urlPatterns
    interceptionStages,    \* NetworkStorage.#interceptionStages
    storageTargets,        \* NetworkStorage.#targets
    targetFetch,           \* per target: the stages of the last Fetch command it acknowledged
    addCalls,              \* addIntercept calls, by the id they generated
    removeCalls,           \* removeIntercept calls, in the order they were made
    blockedBy              \* the last requestBlockedBy call and its result

\* BrowsingContextProcessor with the storages it writes.
VARIABLES
    attached,              \* sessions the browser has attached so far
    lastEvent,             \* the CDP event handled last
    contexts,              \* BrowsingContextStorage: id -> parent, children, cdpTarget
    cdpTargets,            \* sessions a CdpTarget was created for
    workerListeners,       \* sessions with the listener of #handleWorkerTarget
    workers,               \* BrowsingContextProcessor.#workers (keys)
    realms,                \* RealmStorage
    released,              \* Runtime.runIfWaitingForDebugger sent by the processor
    detachSent,            \* Target.detachFromTarget commands sent
    preloadTargets         \* target ids the preload scripts are installed for

\* NetworkStorage, as it keeps the requests.
VARIABLES
    requestMap,            \* NetworkStorage.#requests: request id -> object
    networkRequests,       \* the NetworkRequest objects constructed so far
    storageLog,            \* the event handled last and what its handler did
    detachedSessions       \* sessions the browser has detached

targetVars ==
    <<subscribed, intercepts, networkDomainEnabled, fetchDomainStages,
      unblocked, resolveCount, batch, batchPromise, scripts, swallowed, tasks,
      waiters, paused, cdpNetwork, cdpFetch, commands>>

storageVars ==
    <<interceptMap, interceptionStages, storageTargets, targetFetch, addCalls,
      removeCalls, blockedBy>>

processorVars ==
    <<attached, lastEvent, contexts, cdpTargets, workerListeners, workers,
      realms, released, detachSent, preloadTargets>>

\* The browsingContext commands of the processor.
VARIABLES
    bidiCall,              \* the browsingContext command in progress
    closeListener          \* the Target.detachedFromTarget listener of close

\* BidiServerRunner with the MessageTransport of one connection.
VARIABLES
    lastMessage,           \* the message of the connection handled last
    messageCount,          \* messages the connection has had
    handlers,              \* MessageTransport.#handlers: what each was given
    closeCalls,            \* browser.close commands waiting for the delegate
    clientMessages         \* what was sent to the client, in order

\* The '*' listener of a CdpTarget and the EventManager it registers with.
VARIABLES
    cdpEvents,             \* events emitted on the targets' clients, in order
    registeredEvents       \* EventManager.registerEvent calls, in order

requestVars ==
    <<requestMap, networkRequests, storageLog, detachedSessions>>

commandVars == <<bidiCall, closeListener>>

runnerVars ==
    <<lastMessage, messageCount, handlers, closeCalls, clientMessages>>

eventVars == <<cdpEvents, registeredEvents>>

\* What the actions of one CdpTarget leave alone, and what the storage's and
\* the processor's do.  The handlers of the processor leave the commands
\* alone unless a command listens to their event: that is said where the
\* handlers are put together.
frontVars == <<runnerVars, eventVars>>
outsideTarget ==
    <<storageVars, processorVars, requestVars, commandVars, frontVars>>
outsideStorage ==
    <<targetVars, processorVars, requestVars, commandVars, frontVars>>
outsideProcessor == <<targetVars, storageVars, requestVars, frontVars>>
outsideRequests ==
    <<targetVars, storageVars, processorVars, commandVars, frontVars>>
outsideCommands == <<targetVars, storageVars, requestVars, frontVars>>
outsideRunner ==
    <<targetVars, storageVars, processorVars, requestVars, commandVars,
      eventVars>>
outsideEvents ==
    <<targetVars, storageVars, processorVars, requestVars, commandVars,
      runnerVars>>

vars ==
    <<targetVars, storageVars, processorVars, requestVars, commandVars,
      frontVars>>

Created == batchPromise # "none"

\* --------------------------------------------------------- pure helpers

\* CdpClient.isCloseError: the client's predicate on a thrown error.
isCloseError(error) == error = "close"

\* NetworkStorage.getInterceptionStages: the phases of all intercepts, OR-ed.
getInterceptionStages(reg) ==
    [request |-> \E i \in DOMAIN reg : "beforeRequestSent" \in reg[i],
     response |-> \E i \in DOMAIN reg : "responseStarted" \in reg[i],
     auth |-> \E i \in DOMAIN reg : "authRequired" \in reg[i]]

\* #enableFetch without the CDP quirk: no Request pattern for the auth stage.
FetchPatternsNoAuth(stages) ==
    (IF stages.request THEN {"Request"} ELSE {})
        \cup (IF stages.response THEN {"Response"} ELSE {})

\* #enableFetch: the patterns pushed for the given stages.
FetchPatterns(stages) ==
    (IF stages.request \/ stages.auth THEN {"Request"} ELSE {})
        \cup (IF stages.response THEN {"Response"} ELSE {})

\* #enableFetch: Fetch.enable is sent only under this guard.
EnableFetchSends(nde, patterns) == nde /\ patterns # {}

\* #disableFetch without the look at the paused requests.
DisableFetchAlways(blockedRequest) == TRUE

\* #disableFetch: Fetch.disable is sent at once only under this guard.
DisableFetchSends(blockedRequest) == blockedRequest = {}

\* toggleNetwork: the locals computed on entry.
ToggleLocals(origin, nde, fds, sub, reg) ==
    LET stages == getInterceptionStages(reg) IN
    [origin |-> origin, pc |-> "entry", stages |-> stages,
     fetchEnable |-> stages.request \/ stages.response \/ stages.auth,
     fetchChanged |-> \/ fds.request # stages.request
                      \/ fds.response # stages.response
                      \/ fds.auth # stages.auth,
     networkEnable |-> sub,
     networkChanged |-> nde # sub,
     oldStages |-> NoStages, patterns |-> {}, handleAuthRequests |-> FALSE]

\* ------------------------------------------------ toggleNetwork, by stage
\* A run of toggleNetwork from one of its four conditionals up to its next
\* await: the command it parks on ("done" when it returns), the values it
\* leaves in #networkDomainEnabled and #fetchDomainStages, the stages
\* #enableFetch saved for a rollback, and whether #disableFetch deferred.
Step(pc, nde, fds, old, defer) ==
    [pc |-> pc, nde |-> nde, fds |-> fds, old |-> old, defer |-> defer]

\* toggleNetwork's last conditional, and #toggleNetwork(false) up to its await.
RunNetworkDisable(t, nde, fds, defer) ==
    IF ~t.networkEnable /\ t.networkChanged /\ ~t.fetchEnable /\ ~t.fetchChanged
    THEN Step("Network.disable", FALSE, fds, NoStages, defer)
    ELSE Step("done", nde, fds, NoStages, defer)

\* toggleNetwork's third conditional, and #disableFetch up to its await.
RunDisableFetch(t, nde, fds, blocked) ==
    IF ~t.fetchEnable /\ t.fetchChanged
    THEN IF DisableFetchSends(blocked)
         THEN Step("Fetch.disable", nde, NoStages, NoStages, FALSE)
         ELSE RunNetworkDisable(t, nde, fds, TRUE)
    ELSE RunNetworkDisable(t, nde, fds, FALSE)

\* toggleNetwork's second conditional, and #enableFetch up to its await.
RunEnableFetch(t, nde, fds, blocked) ==
    IF t.fetchEnable /\ t.fetchChanged
           /\ EnableFetchSends(nde, FetchPatterns(t.stages))
    THEN Step("Fetch.enable", nde, t.stages, fds, FALSE)
    ELSE RunDisableFetch(t, nde, fds, blocked)

\* toggleNetwork's first conditional, and #toggleNetwork(true) up to its await.
RunToggleNetwork(t, nde, fds, blocked) ==
    IF t.networkEnable /\ t.networkChanged
    THEN Step("Network.enable", TRUE, fds, NoStages, FALSE)
    ELSE RunEnableFetch(t, nde, fds, blocked)

\* ------------------------------------------------- the target, as a record
\* The fields of the target an event-loop run rewrites, threaded through the
\* calls of that run.
Target ==
    [nde |-> networkDomainEnabled, fds |-> fetchDomainStages, tasks |-> tasks,
     waiters |-> waiters, batch |-> batch, promise |-> batchPromise,
     reason |-> "none", swallowed |-> swallowed]

\* The call t of toggleNetwork has run to step r: park it on its command, or
\* settle its promise; register the deferred disable if there is one.
Park(st, t, r, blocked) ==
    LET parked == [t EXCEPT !.pc = r.pc, !.oldStages = r.old,
                       !.patterns = IF r.pc = "Fetch.enable"
                                    THEN FetchPatterns(t.stages) ELSE {},
                       !.handleAuthRequests = IF r.pc = "Fetch.enable"
                                              THEN t.stages.auth ELSE FALSE]
        ws == IF r.defer THEN Append(st.waiters, blocked) ELSE st.waiters
        ts == IF r.pc # "done" THEN st.tasks (+) SetToBag({parked}) ELSE st.tasks
        b == IF t.origin = "unblock" /\ r.pc = "done"
             THEN [st.batch EXCEPT !["toggleNetwork"] = "settled"]
             ELSE st.batch
    IN [st EXCEPT !.nde = r.nde, !.fds = r.fds, !.tasks = ts, !.waiters = ws,
                  !.batch = b]

\* A call of toggleNetwork() from its first line to its first await.
CallToggleNetwork(st, origin, sub, reg, blocked) ==
    LET t == ToggleLocals(origin, st.nde, st.fds, sub, reg)
    IN Park(st, t, RunToggleNetwork(t, st.nde, st.fds, blocked), blocked)

\* The call t threw: its promise rejects.  Inside the batch the error reaches
\* Promise.all; the then-chain of a deferred disable only logs it; elsewhere
\* it goes to the command handler that awaited the call.
Reject(st, t, error) ==
    IF t.origin = "unblock"
    THEN [st EXCEPT !.batch = [st.batch EXCEPT !["toggleNetwork"] = "settled"],
                    !.reason = error]
    ELSE st

\* A catch inside the call t swallowed the error.
Swallow(st, t, outcome) ==
    IF t.origin = "unblock" /\ outcome # "ok"
    THEN [st EXCEPT !.swallowed = st.swallowed \cup {outcome}]
    ELSE st

\* The call t resumes after the answer to the command it was parked on.
Resume(st, t, outcome, blocked) ==
    CASE t.pc = "Network.enable" ->
             \* #toggleNetwork(true): the catch writes !enable
             LET nde == IF outcome = "ok" THEN st.nde ELSE FALSE
             IN Park(Swallow(st, t, outcome), t,
                     RunEnableFetch(t, nde, st.fds, blocked), blocked)
      [] t.pc = "Fetch.enable" ->
             \* #enableFetch: the catch restores oldStages
             LET fds == IF outcome = "ok" THEN st.fds ELSE t.oldStages
             IN Park(Swallow(st, t, outcome), t,
                     RunDisableFetch(t, st.nde, fds, blocked), blocked)
      [] t.pc = "Fetch.disable" ->
             \* #disableFetch has no catch: the error leaves toggleNetwork
             IF outcome = "ok"
             THEN Park(st, t, RunNetworkDisable(t, st.nde, st.fds, FALSE), blocked)
             ELSE Reject(st, t, outcome)
      [] t.pc = "Network.disable" ->
             \* #toggleNetwork(false): the catch writes !enable
             LET nde == IF outcome = "ok" THEN st.nde ELSE TRUE
             IN Park(Swallow(st, t, outcome), t,
                     Step("done", nde, st.fds, NoStages, FALSE), blocked)

\* ------------------------------------------------------ #unblock's ending
\* The error an entry of the batch rejects with, for the answer to its command.
Reason(outcome) == IF outcome = "ok" THEN "none" ELSE outcome

\* Promise.all taken for Promise.race: settled with the first entry to settle.
PromiseAllRace(prev, b, reason) ==
    IF prev # "pending" THEN prev
    ELSE IF reason # "none" THEN reason
    ELSE IF \E e \in BatchEntries : b[e] = "settled" THEN "fulfilled"
    ELSE "pending"

\* Promise.all over the batch, after a run that left the entries as b and
\* rejected one of them with reason (or none).  While it is pending no entry
\* has rejected: it rejects with the first rejection, is fulfilled once every
\* entry has settled, and stays pending otherwise.
PromiseAll(prev, b, reason) ==
    IF prev # "pending" THEN prev
    ELSE IF reason # "none" THEN reason
    ELSE IF \A e \in BatchEntries : b[e] = "settled" THEN "fulfilled"
    ELSE "pending"

\* #unblock without the return in its catch: it falls through to the
\* second resolve.
UnblockResolutionsNoReturn(outcome) ==
    IF outcome \in ErrorKinds /\ ~isCloseError(outcome)
    THEN <<"error", "success">>
    ELSE <<"success">>

\* #unblock with the test of its catch inverted.
UnblockResolutionsInverted(outcome) ==
    IF outcome \in ErrorKinds /\ isCloseError(outcome)
    THEN <<"error">>
    ELSE <<"success">>

\* #unblock after its await: the results it passes to #unblocked.resolve.
UnblockResolutions(outcome) ==
    IF outcome \in ErrorKinds /\ ~isCloseError(outcome)
    THEN <<"error">>
    ELSE <<"success">>

\* The resolve calls of a run that takes the awaited promise from prev to new.
Resolutions(prev, new) ==
    IF prev = "pending" /\ new # "pending" THEN UnblockResolutions(new) ELSE <<>>

\* Write the target record back, and let #unblock end if its await settled.
Commit(st) ==
    LET new == PromiseAll(st.promise, st.batch, st.reason)
        calls == Resolutions(st.promise, new)
    IN /\ networkDomainEnabled' = st.nde
       /\ fetchDomainStages' = st.fds
       /\ tasks' = st.tasks
       /\ waiters' = st.waiters
       /\ batch' = st.batch
       /\ batchPromise' = new
       /\ swallowed' = st.swallowed
       /\ unblocked' = IF unblocked = "pending" /\ calls # <<>>
                       THEN calls[1] ELSE unblocked
       /\ resolveCount' = resolveCount + Len(calls)

\* ----------------------------------------------------------------- Init
TargetInit ==
    /\ subscribed = FALSE
    /\ intercepts = <<>>
    /\ networkDomainEnabled = FALSE
    /\ fetchDomainStages = NoStages
    /\ unblocked = "pending"
    /\ resolveCount = 0
    /\ batch = [e \in BatchEntries |-> "unsent"]
    /\ batchPromise = "none"
    /\ scripts = 0
    /\ swallowed = {}
    /\ tasks = EmptyBag
    /\ waiters = <<>>
    /\ paused = {}
    /\ cdpNetwork = FALSE
    /\ cdpFetch = FALSE
    /\ commands = 0

\* NetworkStorage after construction: nothing registered, no call made.
StorageInit ==
    /\ interceptMap = <<>>
    /\ interceptionStages = NoStages
    /\ storageTargets = {}
    /\ targetFetch = [t \in StorageTargetIds |-> NoStages]
    /\ addCalls = <<>>
    /\ removeCalls = <<>>
    /\ blockedBy = [url |-> "undefined", phase |-> "undefined", result |-> {}]

\* BrowsingContextProcessor after construction: it listens on the browser
\* client; nothing is attached.
ProcessorInit ==
    /\ attached = {}
    /\ lastEvent = [name |-> "none"]
    /\ contexts = <<>>
    /\ cdpTargets = {}
    /\ workerListeners = <<>>
    /\ workers = {}
    /\ realms = {}
    /\ released = [s \in {} |-> "sent"]
    /\ detachSent = {}
    /\ preloadTargets = {}

\* The request table after construction: no request, no event handled.
RequestInit ==
    /\ requestMap = [i \in {} |-> 0]
    /\ networkRequests = <<>>
    /\ storageLog = [event |-> "none"]
    /\ detachedSessions = {}

\* No command has been called.  The result of a command is "{}", "{context}"
\* (the id being the target of the call) or the name of the error thrown,
\* "error" for the error of a CDP command thrown as it is.
NoError == [code |-> 0, message |-> "none"]
NoCall ==
    [method |-> "none", type |-> "none", context |-> "none",
     target |-> "none", pc |-> "idle", sent |-> <<>>, error |-> NoError,
     result |-> "none"]
CommandInit ==
    /\ bidiCall = NoCall
    /\ closeListener = [targetId |-> "none", state |-> "none"]

\* A connection is accepted; no message has come.
Undefined == [text |-> "undefined", id |-> "undefined", method |-> "undefined"]
RunnerInit ==
    /\ lastMessage = [type |-> "none", utf8Data |-> Undefined,
                      outcome |-> "none"]
    /\ messageCount = 0
    /\ handlers = <<>>
    /\ closeCalls = <<>>
    /\ clientMessages = <<>>

EventInit == cdpEvents = <<>> /\ registeredEvents = <<>>

Init ==
    TargetInit /\ StorageInit /\ ProcessorInit /\ RequestInit /\ CommandInit
        /\ RunnerInit /\ EventInit

\* ------------------------------------------- BiDi commands (the callers)
\* A command handler changed the subscriptions or the registry: it calls
\* toggleNetwork() on the target, if there is one.
Synchronise(sub, reg) ==
    /\ commands < MaxCommands
    /\ commands' = commands + 1
    /\ Commit(IF Created
              THEN CallToggleNetwork(Target, "call", sub, reg, paused)
              ELSE Target)

\* session.subscribe covering network.* for the target's top-level context.
Subscribe ==
    /\ ~subscribed
    /\ subscribed' = TRUE
    /\ Synchronise(TRUE, intercepts)
    /\ UNCHANGED <<intercepts, scripts, paused, cdpNetwork, cdpFetch>>
    /\ UNCHANGED outsideTarget

\* session.unsubscribe of the last subscription covering network.*.
Unsubscribe ==
    /\ subscribed
    /\ subscribed' = FALSE
    /\ Synchronise(FALSE, intercepts)
    /\ UNCHANGED <<intercepts, scripts, paused, cdpNetwork, cdpFetch>>
    /\ UNCHANGED outsideTarget

\* network.addIntercept: insert under a fresh id, then synchronise.
AddIntercept(id, phases) ==
    /\ id \notin DOMAIN intercepts
    /\ \A j \in InterceptIds \ DOMAIN intercepts : id <= j
    /\ intercepts' = [i \in DOMAIN intercepts \cup {id} |->
                         IF i = id THEN phases ELSE intercepts[i]]
    /\ Synchronise(subscribed, intercepts')
    /\ UNCHANGED <<subscribed, scripts, paused, cdpNetwork, cdpFetch>>
    /\ UNCHANGED outsideTarget

\* network.removeIntercept of a registered id: delete, then synchronise.
RemoveIntercept(id) ==
    /\ id \in DOMAIN intercepts
    /\ intercepts' = [i \in DOMAIN intercepts \ {id} |-> intercepts[i]]
    /\ Synchronise(subscribed, intercepts')
    /\ UNCHANGED <<subscribed, scripts, paused, cdpNetwork, cdpFetch>>
    /\ UNCHANGED outsideTarget

\* ------------------------------------------------------ CdpTarget.create
\* create() runs #unblock up to its await: every plain command of the batch
\* is sent, toggleNetwork() and the n preload-script installs are started.
CreateTarget(n) ==
    /\ ~Created
    /\ scripts' = n
    /\ LET sent == [e \in BatchEntries |->
                       IF e = "preloadScripts" /\ n = 0
                       THEN "settled" ELSE "pending"]
       IN Commit(CallToggleNetwork(
                     [Target EXCEPT !.batch = sent, !.promise = "pending"],
                     "unblock", subscribed, intercepts, paused))
    /\ UNCHANGED <<subscribed, intercepts, paused, cdpNetwork, cdpFetch, commands>>
    /\ UNCHANGED outsideTarget

\* ------------------------------------------------------- CDP responses
\* The answer to one of the plain commands of the batch.
BatchResponse(c, outcome) ==
    /\ batch[c] = "pending"
    /\ Commit([Target EXCEPT !.batch = [batch EXCEPT ![c] = "settled"],
                             !.reason = Reason(outcome)])
    /\ UNCHANGED <<subscribed, intercepts, scripts, paused, cdpNetwork, cdpFetch,
                   commands>>
    /\ UNCHANGED outsideTarget

\* #initAndEvaluatePreloadScripts: its Promise.all over the installs, after
\* the answer to one of them leaves k in flight.  It rejects with the first
\* failed install and is fulfilled with the last successful one.
PreloadOutcome(entry, k, outcome) ==
    IF entry # "pending" THEN entry
    ELSE IF outcome # "ok" \/ k = 0 THEN "settled"
    ELSE "pending"

\* The answer to the install of one of the preload scripts.
ScriptResponse(outcome) ==
    /\ scripts > 0
    /\ scripts' = scripts - 1
    /\ Commit([Target EXCEPT
                  !.batch = [batch EXCEPT !["preloadScripts"] =
                                PreloadOutcome(batch["preloadScripts"], scripts', outcome)],
                  !.reason = IF batch["preloadScripts"] = "pending"
                             THEN Reason(outcome) ELSE "none"])
    /\ UNCHANGED <<subscribed, intercepts, paused, cdpNetwork, cdpFetch, commands>>
    /\ UNCHANGED outsideTarget

\* The answer to the Network/Fetch command the call t is parked on.
TaskResponse(t, outcome) ==
    /\ BagIn(t, tasks)
    /\ cdpNetwork' = IF outcome # "ok" THEN cdpNetwork
                     ELSE IF t.pc = "Network.enable" THEN TRUE
                     ELSE IF t.pc = "Network.disable" THEN FALSE
                     ELSE cdpNetwork
    /\ cdpFetch' = IF outcome # "ok" THEN cdpFetch
                   ELSE IF t.pc = "Fetch.enable" THEN TRUE
                   ELSE IF t.pc = "Fetch.disable" THEN FALSE
                   ELSE cdpFetch
    /\ Commit(Resume([Target EXCEPT !.tasks = tasks (-) SetToBag({t})],
                     t, outcome, paused))
    /\ UNCHANGED <<subscribed, intercepts, scripts, paused, commands>>
    /\ UNCHANGED outsideTarget

\* ------------------------------------------------------ paused requests
RECURSIVE Drain(_, _, _)
\* The then-callbacks of k drained waiters: each calls toggleNetwork().
Drain(st, k, blocked) ==
    IF k = 0 THEN st
    ELSE Drain(CallToggleNetwork(st, "drain", subscribed, intercepts, blocked),
               k - 1, blocked)

\* Fetch.requestPaused / Fetch.authRequired for a request some intercept blocks.
RequestPaused(r) ==
    /\ Created
    /\ r \notin paused
    /\ cdpFetch
    /\ getInterceptionStages(intercepts) # NoStages
    /\ paused' = paused \cup {r}
    /\ UNCHANGED <<subscribed, intercepts, networkDomainEnabled, fetchDomainStages,
                   unblocked, resolveCount, batch, batchPromise, scripts,
                   swallowed, tasks, waiters, cdpNetwork, cdpFetch, commands>>
    /\ UNCHANGED outsideTarget

\* The request reaches its next phase: waitNextPhase resolves, and the
\* Promise.all of every waiter that waited for nothing else is fulfilled.
RequestContinued(r) ==
    /\ r \in paused
    /\ paused' = paused \ {r}
    /\ LET left == [i \in DOMAIN waiters |-> waiters[i] \ {r}]
           keep == SelectSeq(left, LAMBDA w : w # {})
       IN Commit(Drain([Target EXCEPT !.waiters = keep],
                       Len(left) - Len(keep), paused'))
    /\ UNCHANGED <<subscribed, intercepts, scripts, cdpNetwork, cdpFetch, commands>>
    /\ UNCHANGED outsideTarget

\* The request is disposed: waitNextPhase rejects, so the Promise.all of every
\* waiter that waited for it rejects; its catch logs 'Disable failed'.
RequestDisposed(r) ==
    /\ r \in paused
    /\ paused' = paused \ {r}
    /\ Commit([Target EXCEPT !.waiters = SelectSeq(waiters, LAMBDA w : r \notin w)])
    /\ UNCHANGED <<subscribed, intercepts, scripts, cdpNetwork, cdpFetch, commands>>
    /\ UNCHANGED outsideTarget

\* ------------------------------------------------------- NetworkStorage
\* The storage as it synchronises the Fetch state of its targets itself:
\* addIntercept and removeIntercept change #intercepts and run
\* toggleInterception, which awaits every registered target.

Urls == {"a", "b"}
UrlPatterns == {"a", "b"}
UrlPatternLists ==
    UNION {[1..n -> UrlPatterns] : n \in 0..MaxPatterns}
InterceptValues == [phases : PhaseSets, urlPatterns : UrlPatternLists]

\* NetworkUtils.matchUrlPattern, reduced to patterns that match one url each.
matchUrlPattern(pattern, url) == pattern = url

\* NoSuchInterceptException: its error code and the message it is thrown with.
NoSuchIntercept == "no such intercept"
NoSuchInterceptMessage(intercept) ==
    <<"Intercept '", intercept, "' does not exist.">>

\* toggleInterception: the stages of the registered intercepts.
StagesOfMap(map) ==
    getInterceptionStages([i \in DOMAIN map |-> map[i].phases])

\* toggleInterception without the reset of its else branch.
ToggledStagesNoReset(map, old) ==
    IF DOMAIN map # {}
    THEN LET stages == StagesOfMap(map)
         IN IF old = stages THEN old ELSE stages
    ELSE old

\* toggleInterception: what it leaves in #interceptionStages.
ToggledStages(map, old) ==
    IF DOMAIN map # {}
    THEN LET stages == StagesOfMap(map)
         IN IF old = stages THEN old ELSE stages
    ELSE NoStages

\* toggleInterception: whether it calls the targets (it returns early when
\* the stages of a non-empty registry have not changed).
ToggleCallsTargets(map, old) ==
    IF DOMAIN map # {} THEN old # StagesOfMap(map) ELSE TRUE

\* toggleInterception up to its await: the stages it asks the targets for and
\* the targets whose answer its Promise.all waits for.
Toggle(map, old) ==
    [stages |-> ToggledStages(map, old),
     waiting |-> IF ToggleCallsTargets(map, old) THEN storageTargets ELSE {}]

\* onCdpTargetCreated: the target joins #targets.  (The targets are alike:
\* "t1" is the name of the first to register.)
onCdpTargetCreated(t) ==
    /\ t \notin storageTargets
    /\ t = "t1" \/ "t1" \in storageTargets
    /\ storageTargets' = storageTargets \cup {t}
    /\ UNCHANGED <<interceptMap, interceptionStages, targetFetch, addCalls,
                   removeCalls, blockedBy>>
    /\ UNCHANGED outsideStorage

\* addIntercept up to its await: a fresh id, the insert, toggleInterception.
\* With nothing to wait for it returns the id at once.
addIntercept(value) ==
    /\ Len(addCalls) + Len(removeCalls) < MaxCalls
    /\ LET interceptId == Len(addCalls) + 1
           map == [i \in DOMAIN interceptMap \cup {interceptId} |->
                      IF i = interceptId THEN value ELSE interceptMap[i]]
           sync == Toggle(map, interceptionStages)
       IN /\ interceptMap' = map
          /\ interceptionStages' = sync.stages
          /\ addCalls' = Append(addCalls,
                 [value |-> value, targets |-> storageTargets,
                  stages |-> sync.stages, waiting |-> sync.waiting,
                  status |-> IF sync.waiting = {} THEN "returned" ELSE "pending"])
    /\ UNCHANGED <<storageTargets, targetFetch, removeCalls, blockedBy>>
    /\ UNCHANGED outsideStorage

\* removeIntercept without its check.
RemoveThrowsNever(map, intercept) == FALSE

\* removeIntercept: an id absent from #intercepts is refused.
RemoveThrows(map, intercept) == intercept \notin DOMAIN map

\* removeIntercept without its delete.
DeletedNothing(map, intercept) == map

\* removeIntercept: #intercepts after the delete.
Deleted(map, intercept) == [i \in DOMAIN map \ {intercept} |-> map[i]]

\* removeIntercept up to its throw or its await.
removeIntercept(intercept) ==
    /\ Len(addCalls) + Len(removeCalls) < MaxCalls
    /\ IF RemoveThrows(interceptMap, intercept)
       THEN /\ removeCalls' = Append(removeCalls,
                   [intercept |-> intercept, stages |-> NoStages, waiting |-> {},
                    status |-> NoSuchIntercept,
                    message |-> NoSuchInterceptMessage(intercept)])
            /\ UNCHANGED <<interceptMap, interceptionStages>>
       ELSE LET map == Deleted(interceptMap, intercept)
                sync == Toggle(map, interceptionStages)
            IN /\ interceptMap' = map
               /\ interceptionStages' = sync.stages
               /\ removeCalls' = Append(removeCalls,
                      [intercept |-> intercept, stages |-> sync.stages,
                       waiting |-> sync.waiting,
                       status |-> IF sync.waiting = {} THEN "ok" ELSE "pending",
                       message |-> <<>>])
    /\ UNCHANGED <<storageTargets, targetFetch, addCalls, blockedBy>>
    /\ UNCHANGED outsideStorage

\* The call's Promise.all after the target t answered with outcome: the first
\* failure rejects it, the last acknowledgement fulfils it as done.
Awaited(call, t, outcome, done) ==
    [call EXCEPT !.waiting = call.waiting \ {t},
                 !.status = IF call.status # "pending" THEN call.status
                            ELSE IF outcome # "ok" THEN "failed"
                            ELSE IF call.waiting = {t} THEN done
                            ELSE "pending"]

\* The target's enableFetchIfNeeded / disableFetchIfNeeded: once the target
\* acknowledges, the stages it was asked for are in effect on it.
Acknowledged(fetch, t, call, outcome) ==
    IF outcome = "ok" THEN [fetch EXCEPT ![t] = call.stages] ELSE fetch

\* The target t answers the synchronisation of the addIntercept call of id.
AddAnswered(id, t, outcome) ==
    /\ id \in DOMAIN addCalls
    /\ t \in addCalls[id].waiting
    /\ targetFetch' = Acknowledged(targetFetch, t, addCalls[id], outcome)
    /\ addCalls' = [addCalls EXCEPT ![id] = Awaited(@, t, outcome, "returned")]
    /\ UNCHANGED <<interceptMap, interceptionStages, storageTargets, removeCalls,
                   blockedBy>>
    /\ UNCHANGED outsideStorage

\* The target t answers the synchronisation of the k-th removeIntercept call.
RemoveAnswered(k, t, outcome) ==
    /\ k \in DOMAIN removeCalls
    /\ t \in removeCalls[k].waiting
    /\ targetFetch' = Acknowledged(targetFetch, t, removeCalls[k], outcome)
    /\ removeCalls' = [removeCalls EXCEPT ![k] = Awaited(@, t, outcome, "ok")]
    /\ UNCHANGED <<interceptMap, interceptionStages, storageTargets, addCalls,
                   blockedBy>>
    /\ UNCHANGED outsideStorage

\* requestBlockedBy, the loop over an intercept's url patterns: it stops at
\* the first pattern that matches the url.
RECURSIVE SomePatternMatches(_, _, _)
SomePatternMatches(urlPatterns, url, k) ==
    IF k > Len(urlPatterns) THEN FALSE
    ELSE IF matchUrlPattern(urlPatterns[k], url) THEN TRUE
    ELSE SomePatternMatches(urlPatterns, url, k + 1)

\* requestBlockedBy without the shortcut for an empty pattern list.
BlocksByPatternOnly(intercept, url, phase) ==
    IF phase \notin intercept.phases THEN FALSE
    ELSE SomePatternMatches(intercept.urlPatterns, url, 1)

\* requestBlockedBy, the body of the loop over the entries: whether the
\* entry's id is added.
Blocks(intercept, url, phase) ==
    IF phase \notin intercept.phases THEN FALSE
    ELSE IF Len(intercept.urlPatterns) = 0 THEN TRUE
    ELSE SomePatternMatches(intercept.urlPatterns, url, 1)

\* requestBlockedBy, the loop over the entries of #intercepts in the order
\* they were inserted, which is the order of their ids.
RECURSIVE BlockedAmong(_, _, _, _)
BlockedAmong(map, ids, url, phase) ==
    IF ids = {} THEN {}
    ELSE LET interceptId == CHOOSE i \in ids : \A j \in ids : i <= j
             rest == BlockedAmong(map, ids \ {interceptId}, url, phase)
         IN IF Blocks(map[interceptId], url, phase)
            THEN {interceptId} \cup rest
            ELSE rest

\* requestBlockedBy: "undefined" stands for a request without url and for a
\* call without phase.
requestBlockedBy(url, phase) ==
    /\ blockedBy' =
           [url |-> url, phase |-> phase,
            result |-> IF url = "undefined" \/ phase = "undefined" THEN {}
                       ELSE BlockedAmong(interceptMap, DOMAIN interceptMap,
                                         url, phase)]
    /\ UNCHANGED <<interceptMap, interceptionStages, storageTargets,
                   targetFetch, addCalls, removeCalls>>
    /\ UNCHANGED outsideStorage

\* ---------------------------------------------- BrowsingContextProcessor
\* Every action is one CDP event handled by the listeners #setEventListeners
\* installs, or the answer to a command the processor sent.

ContextTypes == {"page", "iframe"}
WorkerTypes == {"worker", "service_worker"}
TargetTypes == ContextTypes \cup WorkerTypes \cup {"shared_worker", "other"}

cdpToBidiTargetTypes ==
    [service_worker |-> "service-worker", shared_worker |-> "shared-worker",
     worker |-> "dedicated-worker"]

\* The clients the processor listens on: the browser's, and the client of
\* every target #createCdpTarget was called for.
Listening == {Browser} \cup cdpTargets

\* BrowsingContextImpl.create: the context is put into the storage under its
\* id and, with a parent, into the parent's children.
Create(ctxs, id, parentId, target, userContext) ==
    LET added == [i \in DOMAIN ctxs \cup {id} |->
                     IF i = id
                     THEN [parent |-> parentId, children |-> {},
                           cdpTarget |-> target, userContext |-> userContext,
                           loaded |-> FALSE]
                     ELSE ctxs[i]]
    IN IF parentId = "null" THEN added
       ELSE [added EXCEPT ![parentId].children = @ \cup {id}]

\* BrowsingContextImpl.updateCdpTarget: only the context's target changes.
updateCdpTarget(ctxs, id, target) == [ctxs EXCEPT ![id].cdpTarget = target]

\* The contexts reached from the ids through the children sets.
RECURSIVE Subtree(_, _, _)
Subtree(ctxs, ids, seen) ==
    LET fresh == (ids \cap DOMAIN ctxs) \ seen
    IN IF fresh = {} THEN seen
       ELSE Subtree(ctxs, UNION {ctxs[i].children : i \in fresh},
                    seen \cup fresh)

\* BrowsingContextImpl.dispose: the context and its descendants leave the
\* storage, each leaving the children of its parent.
Disposed(ctxs, id) ==
    LET gone == Subtree(ctxs, {id}, {})
    IN [i \in DOMAIN ctxs \ gone |->
           [ctxs[i] EXCEPT
               !.children = @ \ {g \in gone : ctxs[g].parent = i}]]

\* The realms left when the contexts are disposed.
RealmsOutside(rs, ctxs) == {r \in rs : r.context \in DOMAIN ctxs \cup {"null"}}

\* #handleAttachedToTargetEvent, page and iframe targets: every context of
\* such a target is made anew.
AttachedContextsAnew(ctxs, targetId, session, userContext) ==
    Create(ctxs, targetId, "null", session, userContext)

\* #handleAttachedToTargetEvent, page and iframe targets: an existing context
\* is given the new CdpTarget, else a top-level context is created.
AttachedContexts(ctxs, targetId, session, userContext) ==
    IF targetId \in DOMAIN ctxs
    THEN updateCdpTarget(ctxs, targetId, session)
    ELSE Create(ctxs, targetId, "null", session, userContext)

\* The user context of a new top-level context, taken as it comes.
UserContextAsGiven(browserContextId) == browserContextId

\* The user context of a new top-level context: targetInfo.browserContextId,
\* or 'default' when that is absent or is #defaultUserContextId.
UserContextOf(browserContextId) ==
    IF browserContextId # "absent" /\ browserContextId # defaultUserContextId
    THEN browserContextId
    ELSE "default"

\* RealmStorage.findRealm({cdpSessionId}): whether a realm of the session
\* is stored.
findRealm(rs, session) == \E r \in rs : r.session = session

\* The switch of #handleAttachedToTargetEvent without the break of its
\* worker case: a worker gets its CdpTarget whether or not a realm is found.
AttachCaseAnyWorker(type, targetId, parent, rs) ==
    IF type \in ContextTypes /\ targetId # selfTargetId THEN "context"
    ELSE IF type \in WorkerTypes THEN "worker"
    ELSE IF type = "shared_worker" THEN "shared"
    ELSE "release"

\* The switch of #handleAttachedToTargetEvent: the case that returns, or
\* "release" for the code after the switch.
AttachCase(type, targetId, parent, rs) ==
    IF type \in ContextTypes /\ targetId # selfTargetId THEN "context"
    ELSE IF type \in WorkerTypes /\ findRealm(rs, parent) THEN "worker"
    ELSE IF type = "shared_worker" THEN "shared"
    ELSE "release"

\* The frame whose Page.frameDetached with reason 'swap' was the event
\* handled last, if that is what it was.
SwapBefore ==
    IF lastEvent.name = "Page.frameDetached" /\ lastEvent.reason = "swap"
    THEN lastEvent.frameId
    ELSE "none"

\* #handleWorkerTarget given the parent's realm for every worker.
OwnerRealmsOfParent(case, parent) == {parent}

\* The owner realms #handleWorkerTarget is given: the realm found for the
\* parent session for a worker or service worker, none for a shared worker.
\* A realm is named by its session.
OwnerRealms(case, parent) == IF case = "worker" THEN {parent} ELSE {}

\* Target.attachedToTarget, received on a client the processor listens on;
\* the browser gives every attached target a session of its own.
handleAttachedToTargetEvent(type, targetId, browserContextId, parent) ==
    /\ Cardinality(attached) < MaxSessions
    /\ parent \in Listening
    /\ LET sessionId == Cardinality(attached) + 1
           case == AttachCase(type, targetId, parent, realms)
       IN /\ attached' = attached \cup {sessionId}
          /\ lastEvent' = [name |-> "Target.attachedToTarget",
                           sessionId |-> sessionId, type |-> type,
                           targetId |-> targetId, parent |-> parent,
                           browserContextId |-> browserContextId,
                           swapOf |-> SwapBefore]
          /\ cdpTargets' = IF case = "release" THEN cdpTargets
                           ELSE cdpTargets \cup {sessionId}
          /\ contexts' = IF case = "context"
                         THEN AttachedContexts(contexts, targetId, sessionId,
                                               UserContextOf(browserContextId))
                         ELSE contexts
          /\ workerListeners' =
                 IF case \in {"worker", "shared"}
                 THEN [s \in DOMAIN workerListeners \cup {sessionId} |->
                          IF s = sessionId
                          THEN [type |-> cdpToBidiTargetTypes[type],
                                owners |-> OwnerRealms(case, parent)]
                          ELSE workerListeners[s]]
                 ELSE workerListeners
          /\ released' =
                 IF case = "release"
                 THEN [s \in DOMAIN released \cup {sessionId} |->
                          IF s = sessionId
                          THEN [command |-> "sent", parent |-> parent,
                                params |-> [sessionId |-> sessionId,
                                            type |-> type,
                                            targetId |-> targetId]]
                          ELSE released[s]]
                 ELSE released
    /\ UNCHANGED <<workers, realms, detachSent, preloadTargets>>
    /\ UNCHANGED outsideProcessor

\* The continuation of Runtime.runIfWaitingForDebugger without waiting for
\* the answer to be a success.
DetachesAlways(outcome) == TRUE

\* The .then of Runtime.runIfWaitingForDebugger runs when the command
\* succeeded; a failure goes to the .catch, which logs.
Detaches(outcome) == outcome = "ok"

\* The answer to the Runtime.runIfWaitingForDebugger the processor sent for
\* a target it does not handle.
ReleaseAnswered(sessionId, outcome) ==
    /\ sessionId \in DOMAIN released
    /\ released[sessionId].command = "sent"
    /\ released' = [released EXCEPT
                        ![sessionId].command =
                            IF outcome = "ok" THEN "ok" ELSE "failed"]
    /\ detachSent' =
           IF Detaches(outcome)
           THEN detachSent \cup {[on |-> released[sessionId].parent,
                                  params |-> released[sessionId].params]}
           ELSE detachSent
    /\ lastEvent' = [name |-> "response"]
    /\ UNCHANGED preloadTargets
    /\ UNCHANGED <<attached, contexts, cdpTargets, workerListeners, workers,
                   realms>>
    /\ UNCHANGED outsideProcessor

\* Runtime.executionContextCreated on a target's client: the listener of
\* #handleWorkerTarget makes a worker realm and records it for the session;
\* a context of the target makes its window realm.
ExecutionContextCreated(sessionId, id, uniqueId) ==
    /\ sessionId \in cdpTargets
    /\ \/ /\ sessionId \in DOMAIN workerListeners
          /\ id = "null"
          /\ realms' = realms \cup
                 {[session |-> sessionId, context |-> "null",
                   uniqueId |-> uniqueId,
                   type |-> workerListeners[sessionId].type,
                   owners |-> workerListeners[sessionId].owners]}
          /\ workers' = workers \cup {sessionId}
       \/ /\ id \in DOMAIN contexts
          /\ contexts[id].cdpTarget = sessionId
          /\ realms' = realms \cup
                 {[session |-> sessionId, context |-> id,
                   uniqueId |-> uniqueId, type |-> "window", owners |-> {}]}
          /\ workers' = workers
    /\ lastEvent' = [name |-> "Runtime.executionContextCreated",
                     sessionId |-> sessionId, uniqueId |-> uniqueId]
    /\ UNCHANGED <<attached, contexts, cdpTargets, workerListeners,
                   released, detachSent, preloadTargets>>
    /\ UNCHANGED outsideProcessor

\* PreloadScript.initInTarget: a preload script is installed in the target
\* of a top-level context and keeps the target's id.
PreloadScriptInstalled(id) ==
    /\ id \in DOMAIN contexts
    /\ contexts[id].parent = "null"
    /\ id \notin preloadTargets
    /\ preloadTargets' = preloadTargets \cup {id}
    /\ lastEvent' = [name |-> "response"]
    /\ UNCHANGED <<attached, contexts, cdpTargets, workerListeners, workers,
                   realms, released, detachSent>>
    /\ UNCHANGED outsideProcessor

\* #handleDetachedFromTargetEvent without the lookup in #workers.
WorkerRealmsKept(rs, ws, sessionId) == rs

\* #handleDetachedFromTargetEvent, the worker branch: the realms of the
\* session are deleted when a worker realm was recorded for it.
WorkerRealmsDeleted(rs, ws, sessionId) ==
    IF sessionId \in ws THEN {r \in rs : r.session # sessionId} ELSE rs

\* Target.detachedFromTarget: a context of the session is disposed and its
\* id taken out of the preload scripts, else the realms of a worker of the
\* session are deleted.
handleDetachedFromTargetEvent(sessionId) ==
    /\ sessionId \in attached
    /\ IF \E id \in DOMAIN contexts : contexts[id].cdpTarget = sessionId
       THEN \E id \in DOMAIN contexts :
                /\ contexts[id].cdpTarget = sessionId
                /\ contexts' = Disposed(contexts, id)
                /\ realms' = RealmsOutside(realms, Disposed(contexts, id))
                /\ preloadTargets' = preloadTargets \ {id}
       ELSE /\ contexts' = contexts
            /\ realms' = WorkerRealmsDeleted(realms, workers, sessionId)
            /\ preloadTargets' = preloadTargets
    /\ lastEvent' = [name |-> "Target.detachedFromTarget",
                     sessionId |-> sessionId]
    /\ UNCHANGED <<attached, cdpTargets, workerListeners, workers, released,
                   detachSent>>
    /\ UNCHANGED outsideProcessor

\* #handleTargetCrashedEvent disposing every realm.
CrashedAll(rs, sessionId) == {}

\* #handleTargetCrashedEvent: the realms of the client's session are
\* disposed.
Crashed(rs, sessionId) == {r \in rs : r.session # sessionId}

\* Inspector.targetCrashed on the client of a target.
handleTargetCrashedEvent(sessionId) ==
    /\ sessionId \in cdpTargets
    /\ realms' = Crashed(realms, sessionId)
    /\ lastEvent' = [name |-> "Inspector.targetCrashed",
                     sessionId |-> sessionId]
    /\ UNCHANGED <<attached, contexts, cdpTargets, workerListeners, workers,
                   released, detachSent, preloadTargets>>
    /\ UNCHANGED outsideProcessor

\* #handleFrameAttachedEvent giving the child the default user context.
FrameAttachedContextsDefault(ctxs, frameId, parentFrameId) ==
    IF parentFrameId \in DOMAIN ctxs
    THEN Create(ctxs, frameId, parentFrameId, ctxs[parentFrameId].cdpTarget,
                "default")
    ELSE ctxs

\* #handleFrameAttachedEvent: a child context with the parent's CdpTarget
\* and user context, when the parent context is stored.
FrameAttachedContexts(ctxs, frameId, parentFrameId) ==
    IF parentFrameId \in DOMAIN ctxs
    THEN Create(ctxs, frameId, parentFrameId, ctxs[parentFrameId].cdpTarget,
                ctxs[parentFrameId].userContext)
    ELSE ctxs

\* Page.frameAttached.
handleFrameAttachedEvent(frameId, parentFrameId) ==
    /\ cdpTargets # {}
    /\ contexts' = FrameAttachedContexts(contexts, frameId, parentFrameId)
    /\ realms' = realms
    /\ lastEvent' = [name |-> "Page.frameAttached", frameId |-> frameId,
                     parentFrameId |-> parentFrameId]
    /\ UNCHANGED preloadTargets
    /\ UNCHANGED <<attached, cdpTargets, workerListeners, workers, released,
                   detachSent>>
    /\ UNCHANGED outsideProcessor

\* #handleFrameDetachedEvent whatever the reason.
FrameDetachedDisposesAlways(reason) == TRUE

\* #handleFrameDetachedEvent disposing nothing.
FrameDetachedDisposesNever(reason) == FALSE

\* #handleFrameDetachedEvent: a swap leaves the context alone.
FrameDetachedDisposes(reason) == reason # "swap"

\* Page.frameDetached.
handleFrameDetachedEvent(frameId, reason) ==
    /\ cdpTargets # {}
    /\ IF FrameDetachedDisposes(reason) /\ frameId \in DOMAIN contexts
       THEN /\ contexts' = Disposed(contexts, frameId)
            /\ realms' = RealmsOutside(realms, Disposed(contexts, frameId))
       ELSE /\ contexts' = contexts
            /\ realms' = realms
    /\ lastEvent' = [name |-> "Page.frameDetached", frameId |-> frameId,
                     reason |-> reason,
                     known |-> frameId \in DOMAIN contexts]
    /\ UNCHANGED preloadTargets
    /\ UNCHANGED <<attached, cdpTargets, workerListeners, workers, released,
                   detachSent>>
    /\ UNCHANGED outsideProcessor

\* ------------------------------------------ NetworkStorage: the requests
\* The NetworkRequest objects made so far are numbered in the order of their
\* construction; #requests maps a request id to the object stored under it.

\* new NetworkRequest(id, eventManager, storage, cdpTarget, redirectCount).
NewNetworkRequest(id, session, redirectCount) ==
    [id |-> id, session |-> session, redirectCount |-> redirectCount,
     fetchId |-> "none", info |-> FALSE, merged |-> {}, disposed |-> 0]

\* NetworkRequest.isRedirecting: the request has had its
\* Network.requestWillBeSent.
isRedirecting(request) == request.info

\* NetworkRequest.dispose.
DisposedRequest(request) == [request EXCEPT !.disposed = @ + 1]

\* The events of the browser a request object has taken in.
MergedInto(objs, o, token) == [objs EXCEPT ![o].merged = @ \cup {token}]

\* The events the browser has sent for a request id, and the session it
\* sends them on: the one session of the request.
Emitted(id) ==
    UNION {networkRequests[o].merged :
              o \in {n \in DOMAIN networkRequests : networkRequests[n].id = id}}
RequestSessionOf == [r1 |-> 1, r2 |-> 2]
SessionOfId(id, session) == RequestSessionOf[id] = session

\* #getOrCreateNetworkRequest: the request stored under the id, or a new one
\* stored under it.
getOrCreateNetworkRequest(objs, map, id, session, redirectCount) ==
    IF id \in DOMAIN map
    THEN [objs |-> objs, map |-> map, obj |-> map[id], ops |-> <<>>]
    ELSE [objs |-> Append(objs, NewNetworkRequest(id, session, redirectCount)),
          map |-> [i \in DOMAIN map \cup {id} |->
                      IF i = id THEN Len(objs) + 1 ELSE map[i]],
          obj |-> Len(objs) + 1,
          ops |-> <<[op |-> "create", obj |-> Len(objs) + 1]>>]

\* deleteRequest: the stored request is disposed and taken out of #requests.
deleteRequest(objs, map, id) ==
    IF id \in DOMAIN map
    THEN [objs |-> [objs EXCEPT ![map[id]] = DisposedRequest(@)],
          map |-> [i \in DOMAIN map \ {id} |-> map[i]],
          ops |-> <<[op |-> "dispose", obj |-> map[id]],
                    [op |-> "delete", obj |-> map[id]]>>]
    ELSE [objs |-> objs, map |-> map, ops |-> <<>>]

\* The redirect count of the attempt that follows a redirect, left as it was.
RedirectCountKept(request) == request.redirectCount

\* The redirect count of the attempt that follows a redirect.
RedirectCountAfter(request) == request.redirectCount + 1

\* A request object can still be made.
CanCreate(id) ==
    id \in DOMAIN requestMap \/ Len(networkRequests) < MaxObjects

\* Network.requestWillBeSent of an attempt of a request: a stored request
\* that is redirecting handles the redirect and gives way to a new request
\* under the same id, which takes the event; else the stored or a new request
\* takes it.
onRequestWillBeSent(session, id, attempt) ==
    LET token == <<"requestWillBeSent", attempt>>
        header == [event |-> "Network.requestWillBeSent", session |-> session,
                   id |-> id, attempt |-> attempt, ops |-> <<>>]
    IN
    /\ session \notin detachedSessions
    /\ SessionOfId(id, session)
    /\ token \notin Emitted(id)
    /\ attempt > 1 => <<"requestWillBeSent", attempt - 1>> \in Emitted(id)
    /\ \/ Len(networkRequests) < MaxObjects
       \/ /\ id \in DOMAIN requestMap
          /\ ~isRedirecting(networkRequests[requestMap[id]])
    /\ IF id \in DOMAIN requestMap
          /\ isRedirecting(networkRequests[requestMap[id]])
       THEN LET old == requestMap[id]
                gone == deleteRequest(networkRequests, requestMap, id)
                made == getOrCreateNetworkRequest(
                            gone.objs, gone.map, id, session,
                            RedirectCountAfter(networkRequests[old]))
            IN /\ networkRequests' =
                      [MergedInto(made.objs, made.obj, token)
                          EXCEPT ![made.obj].info = TRUE]
               /\ requestMap' = made.map
               /\ storageLog' =
                      [header EXCEPT !.ops =
                          <<[op |-> "handleRedirect", obj |-> old]>>
                          \o gone.ops \o made.ops
                          \o <<[op |-> "onRequestWillBeSentEvent",
                                obj |-> made.obj]>>]
       ELSE LET made == getOrCreateNetworkRequest(
                            networkRequests, requestMap, id, session, 0)
            IN /\ networkRequests' =
                      [MergedInto(made.objs, made.obj, token)
                          EXCEPT ![made.obj].info = TRUE]
               /\ requestMap' = made.map
               /\ storageLog' =
                      [header EXCEPT !.ops =
                          made.ops \o <<[op |-> "onRequestWillBeSentEvent",
                                         obj |-> made.obj]>>]
    /\ UNCHANGED detachedSessions
    /\ UNCHANGED outsideRequests

\* Network.requestWillBeSentExtraInfo of an attempt of a request, which the
\* browser sends before or after the attempt's Network.requestWillBeSent.
onRequestWillBeSentExtraInfo(session, id, attempt) ==
    LET token == <<"requestWillBeSentExtraInfo", attempt>>
        made == getOrCreateNetworkRequest(
                    networkRequests, requestMap, id, session, 0)
    IN
    /\ session \notin detachedSessions
    /\ SessionOfId(id, session)
    /\ token \notin Emitted(id)
    /\ attempt > 1 => <<"requestWillBeSent", attempt - 1>> \in Emitted(id)
    /\ CanCreate(id)
    /\ networkRequests' = MergedInto(made.objs, made.obj, token)
    /\ requestMap' = made.map
    /\ storageLog' =
           [event |-> "Network.requestWillBeSentExtraInfo",
            session |-> session, id |-> id, attempt |-> attempt,
            ops |-> made.ops \o
                    <<[op |-> "onRequestWillBeSentExtraInfoEvent",
                       obj |-> made.obj]>>]
    /\ UNCHANGED detachedSessions
    /\ UNCHANGED outsideRequests

\* The other events of the Network domain a request takes in.
ResponseEvents ==
    {"Network.responseReceived", "Network.responseReceivedExtraInfo",
     "Network.requestServedFromCache", "Network.loadingFailed"}

onResponseEvent(event, session, id) ==
    LET made == getOrCreateNetworkRequest(
                    networkRequests, requestMap, id, session, 0)
    IN
    /\ session \notin detachedSessions
    /\ SessionOfId(id, session)
    /\ CanCreate(id)
    /\ networkRequests' = made.objs
    /\ requestMap' = made.map
    /\ storageLog' =
           [event |-> event, session |-> session, id |-> id, attempt |-> 0,
            ops |-> made.ops \o <<[op |-> event, obj |-> made.obj]>>]
    /\ UNCHANGED detachedSessions
    /\ UNCHANGED outsideRequests

\* Fetch.requestPaused: the request of the network id keeps the fetch id.
handleNetworkInterception(session, networkId, fetchId) ==
    LET made == getOrCreateNetworkRequest(
                    networkRequests, requestMap, networkId, session, 0)
    IN
    /\ session \notin detachedSessions
    /\ SessionOfId(networkId, session)
    /\ CanCreate(networkId)
    /\ networkRequests' = [made.objs EXCEPT ![made.obj].fetchId = fetchId]
    /\ requestMap' = made.map
    /\ storageLog' =
           [event |-> "Fetch.requestPaused", session |-> session,
            id |-> networkId, attempt |-> 0,
            ops |-> made.ops \o <<[op |-> "onRequestPaused",
                                   obj |-> made.obj]>>]
    /\ UNCHANGED detachedSessions
    /\ UNCHANGED outsideRequests

\* getRequestByFetchId: the stored requests with the fetch id.
getRequestByFetchId(objs, map, fetchId) ==
    {id \in DOMAIN map : objs[map[id]].fetchId = fetchId}

\* #handleAuthInterception never answering itself.
ContinuedByStorageNever(found) == FALSE

\* #handleAuthInterception: without a request of the fetch id the storage
\* answers the browser itself.
ContinuedByStorage(found) == found = {}

\* NetworkRequest.onAuthRequired: a request no intercept blocks at
\* authRequired is continued with the default response; a blocked one is
\* told to the client as blocked.
onAuthRequired(session, fetchId, o, blocking) ==
    IF blocking = {}
    THEN <<[op |-> "Fetch.continueWithAuth", session |-> session,
            requestId |-> fetchId, response |-> "Default"]>>
    ELSE <<[op |-> "network.authRequired", obj |-> o, isBlocked |-> TRUE]>>

\* Fetch.authRequired.
handleAuthInterception(session, fetchId, blocking) ==
    LET found == getRequestByFetchId(networkRequests, requestMap, fetchId)
    IN
    /\ session \notin detachedSessions
    /\ \A id \in found : networkRequests[requestMap[id]].session = session
    /\ found = {} => blocking = {}
    /\ storageLog' =
           [event |-> "Fetch.authRequired", session |-> session,
            id |-> fetchId, attempt |-> 0, known |-> found # {},
            blocking |-> blocking,
            ops |-> IF ContinuedByStorage(found)
                    THEN <<[op |-> "Fetch.continueWithAuth",
                            session |-> session, requestId |-> fetchId,
                            response |-> "Default"]>>
                    ELSE IF found # {}
                    THEN LET id == CHOOSE i \in found : TRUE
                         IN onAuthRequired(session, fetchId, requestMap[id],
                                           blocking)
                    ELSE <<>>]
    /\ UNCHANGED <<networkRequests, requestMap, detachedSessions>>
    /\ UNCHANGED outsideRequests

\* The client a session's Target.detachedFromTarget arrives on: the client
\* of the session the target was attached from.  Session 1 is that of a
\* page, attached from the browser session; each further session is that of
\* a frame or worker attached from the session before it.
ParentClient(session) == session - 1

\* The storage's listener of Target.detachedFromTarget is on the browser
\* client.
StorageHears(client) == client = Browser

\* disposeRequestMap: the stored requests of the session's client are
\* disposed and taken out of #requests.
disposeRequestMap(objs, map, session) ==
    LET gone == {id \in DOMAIN map : objs[map[id]].session = session}
    IN [objs |-> [o \in DOMAIN objs |->
                     IF \E id \in gone : map[id] = o
                     THEN DisposedRequest(objs[o])
                     ELSE objs[o]],
        map |-> [i \in DOMAIN map \ gone |-> map[i]]]

\* Target.detachedFromTarget of a session, its own targets having gone
\* before it.
onDetachedFromTarget(session) ==
    /\ session \notin detachedSessions
    /\ \A s \in RequestSessions :
          ParentClient(s) = session => s \in detachedSessions
    /\ detachedSessions' = detachedSessions \cup {session}
    /\ LET done == IF StorageHears(ParentClient(session))
                   THEN disposeRequestMap(networkRequests, requestMap,
                                          session)
                   ELSE [objs |-> networkRequests, map |-> requestMap]
       IN /\ networkRequests' = done.objs
          /\ requestMap' = done.map
    /\ storageLog' =
           [event |-> "Target.detachedFromTarget", session |-> session,
            id |-> "none", attempt |-> 0, ops |-> <<>>]
    /\ UNCHANGED outsideRequests

\* ------------------------------------- the browsingContext commands
\* One command is in progress at a time.  bidiCall holds its method and
\* parameters, where it waits, the CDP commands it has sent and its result.

\* BrowsingContextStorage.getContext finds the context, and
\* BrowsingContextImpl.isTopLevelContext: the context has no parent.
isTopLevelContext(ctxs, id) == ctxs[id].parent = "null"

\* No command is in progress.
Idle == bidiCall.pc \in {"idle", "returned", "thrown"}

Thrown(method, context, error) ==
    [method |-> method, type |-> "none", context |-> context,
     target |-> "none", pc |-> "thrown", sent |-> <<>>, error |-> NoError,
     result |-> error]

\* The commands going on with a context that is not top-level.
TopLevelErrorOfUnknown(ctxs, id) ==
    IF id \notin DOMAIN ctxs THEN "no such frame" ELSE "none"

\* The error of a command given a context that is not stored or is not
\* top-level; "none" when it goes on.
TopLevelError(ctxs, id) ==
    IF id \notin DOMAIN ctxs THEN "no such frame"
    ELSE IF ~isTopLevelContext(ctxs, id) THEN "invalid argument"
    ELSE "none"

\* create: the user context of the new target.
CreateUserContext(ctxs, referenceContext, userContext) ==
    IF userContext # "undefined" THEN userContext
    ELSE IF referenceContext # "undefined"
    THEN ctxs[referenceContext].userContext
    ELSE "default"

\* create telling newWindow by the type alone.
NewWindowByType(ctxs, type, userContext) == type = "window"

\* create: newWindow is true for a window, and for the first context of a
\* user context other than the default one.
NewWindow(ctxs, type, userContext) ==
    \/ type = "window"
    \/ /\ userContext # "default"
       /\ ~\E id \in DOMAIN ctxs : ctxs[id].userContext = userContext

\* browsingContext.create up to its Target.createTarget.
create(type, referenceContext, userContext) ==
    /\ Idle
    /\ bidiCall' =
           IF referenceContext # "undefined"
              /\ TopLevelError(contexts, referenceContext) # "none"
           THEN [Thrown("create", referenceContext,
                        TopLevelError(contexts, referenceContext))
                    EXCEPT !.type = type]
           ELSE LET uc == CreateUserContext(contexts, referenceContext,
                                            userContext)
                IN [method |-> "create", type |-> type,
                    context |-> referenceContext, target |-> "none",
                    pc |-> "awaitCreateTarget",
                    sent |-> <<[method |-> "Target.createTarget",
                                url |-> "about:blank",
                                newWindow |-> NewWindow(contexts, type, uc),
                                browserContextId |->
                                    IF uc = "default" THEN "undefined"
                                    ELSE uc]>>,
                    error |-> NoError, result |-> "none"]
    /\ UNCHANGED closeListener
    /\ UNCHANGED processorVars
    /\ UNCHANGED outsideCommands

\* create after Target.createTarget: the context of the new target is
\* looked up and its load awaited.
CreateAwaits(ctxs, target) ==
    IF target \in DOMAIN ctxs THEN "awaitLoaded" ELSE "thrown"

\* The response of Target.createTarget.
CreateTargetAnswered(outcome, targetId) ==
    /\ bidiCall.method = "create"
    /\ bidiCall.pc = "awaitCreateTarget"
    /\ bidiCall' =
           IF outcome = "ok"
           THEN [bidiCall EXCEPT
                    !.target = targetId,
                    !.pc = CreateAwaits(contexts, targetId),
                    !.result =
                        IF CreateAwaits(contexts, targetId) = "thrown"
                        THEN "no such frame"
                        ELSE "none"]
           ELSE [bidiCall EXCEPT
                    !.pc = "thrown",
                    !.result = IF outcome = "no browser context"
                               THEN "no such user context"
                               ELSE "unknown error"]
    /\ UNCHANGED closeListener
    /\ UNCHANGED processorVars
    /\ UNCHANGED outsideCommands

\* BrowsingContextImpl: the load of the context's document has completed.
LifecycleLoaded(id) ==
    /\ id \in DOMAIN contexts
    /\ ~contexts[id].loaded
    /\ contexts' = [contexts EXCEPT ![id].loaded = TRUE]
    /\ lastEvent' = [name |-> "Page.lifecycleEvent", frameId |-> id]
    /\ UNCHANGED <<attached, cdpTargets, workerListeners, workers, realms,
                   released, detachSent, preloadTargets>>
    /\ UNCHANGED commandVars
    /\ UNCHANGED outsideCommands

\* create after the load of the new context.
CreateReturns ==
    /\ bidiCall.method = "create"
    /\ bidiCall.pc = "awaitLoaded"
    /\ bidiCall.target \in DOMAIN contexts
    /\ contexts[bidiCall.target].loaded
    /\ bidiCall' = [bidiCall EXCEPT
                       !.pc = "returned",
                       !.result = "{context}"]
    /\ UNCHANGED closeListener
    /\ UNCHANGED processorVars
    /\ UNCHANGED outsideCommands

\* activate and setViewport: a top-level context is handed the command, and
\* sends its CDP commands on its target's session.
TopLevelCommand(method, cdpMethod, context) ==
    /\ Idle
    /\ bidiCall' =
           IF TopLevelError(contexts, context) # "none"
           THEN Thrown(method, context, TopLevelError(contexts, context))
           ELSE [method |-> method, type |-> "none", context |-> context,
                 target |-> "none", pc |-> "awaitCommand",
                 sent |-> <<[method |-> cdpMethod,
                             session |-> contexts[context].cdpTarget]>>,
                 error |-> NoError, result |-> "none"]
    /\ UNCHANGED closeListener
    /\ UNCHANGED processorVars
    /\ UNCHANGED outsideCommands

activate(context) == TopLevelCommand("activate", "context.activate", context)

setViewport(context) ==
    TopLevelCommand("setViewport", "context.setViewport", context)

\* The response of the CDP command of activate or setViewport.
CommandAnswered(outcome) ==
    /\ bidiCall.pc = "awaitCommand"
    /\ bidiCall' = IF outcome = "ok"
                   THEN [bidiCall EXCEPT !.pc = "returned", !.result = "{}"]
                   ELSE [bidiCall EXCEPT !.pc = "thrown",
                                         !.result = "unknown error"]
    /\ UNCHANGED closeListener
    /\ UNCHANGED processorVars
    /\ UNCHANGED outsideCommands

\* close (modules/context): the listener of Target.detachedFromTarget is on
\* the browser client before the CDP command is sent.
close(context, promptUnload) ==
    /\ Idle
    /\ IF TopLevelError(contexts, context) # "none"
       THEN /\ bidiCall' = Thrown("close", context,
                                  TopLevelError(contexts, context))
            /\ closeListener' = closeListener
       ELSE /\ bidiCall' =
                   [method |-> "close", type |-> "none", context |-> context,
                    target |-> "none", pc |-> "awaitCloseCommand",
                    sent |-> <<IF promptUnload
                               THEN [method |-> "context.close",
                                     session |-> contexts[context].cdpTarget]
                               ELSE [method |-> "Target.closeTarget",
                                     session |-> Browser]>>,
                    error |-> NoError, result |-> "none"]
            /\ closeListener' = [targetId |-> context, state |-> "listening"]
    /\ UNCHANGED processorVars
    /\ UNCHANGED outsideCommands

\* process_browsingContext_close (domains/context): the context is closed
\* first; the listener is installed after the response.
process_browsingContext_close(context) ==
    /\ Idle
    /\ bidiCall' =
           IF TopLevelError(contexts, context) # "none"
           THEN Thrown("process_browsingContext_close", context,
                       TopLevelError(contexts, context))
           ELSE [method |-> "process_browsingContext_close",
                 type |-> "none", context |-> context, target |-> "none",
                 pc |-> "awaitCloseCommand",
                 sent |-> <<[method |-> "context.close",
                             session |-> contexts[context].cdpTarget]>>,
                 error |-> NoError, result |-> "none"]
    /\ closeListener' = [targetId |-> "none", state |-> "none"]
    /\ UNCHANGED processorVars
    /\ UNCHANGED outsideCommands

\* CdpErrorConstants.GENERIC_ERROR, and the errors a CDP command fails with.
GENERIC_ERROR == -32000
NotAttached == "Not attached to an active page"
CloseErrors ==
    [code : {GENERIC_ERROR, -32601}, message : {NotAttached, "other"}]

\* close swallowing by the message alone.
SwallowedByMessage(error) == error.message = NotAttached

\* close: the error of a page that is being destroyed is swallowed.
Swallowed(error) ==
    error.code = GENERIC_ERROR /\ error.message = NotAttached

\* The CDP command of close succeeded: the detachment is awaited.
CloseCommandSucceeded ==
    /\ bidiCall.pc = "awaitCloseCommand"
    /\ bidiCall' = [bidiCall EXCEPT !.pc = "awaitDetached"]
    /\ closeListener' =
           IF bidiCall.method = "process_browsingContext_close"
           THEN [targetId |-> bidiCall.context, state |-> "listening"]
           ELSE closeListener
    /\ UNCHANGED processorVars
    /\ UNCHANGED outsideCommands

\* The CDP command of close failed: the catch of close.
CloseCommandFailed(error) ==
    /\ bidiCall.pc = "awaitCloseCommand"
    /\ bidiCall' = IF Swallowed(error)
                   THEN [bidiCall EXCEPT !.pc = "returned", !.result = "{}",
                                         !.error = error]
                   ELSE [bidiCall EXCEPT !.pc = "thrown", !.result = "error",
                                         !.error = error]
    /\ UNCHANGED closeListener
    /\ UNCHANGED processorVars
    /\ UNCHANGED outsideCommands

\* close after its promise of the detachment is resolved.
CloseReturns ==
    /\ bidiCall.pc = "awaitDetached"
    /\ closeListener.state = "resolved"
    /\ bidiCall' = [bidiCall EXCEPT !.pc = "returned", !.result = "{}"]
    /\ UNCHANGED closeListener
    /\ UNCHANGED processorVars
    /\ UNCHANGED outsideCommands

\* The target id of the Target.detachedFromTarget of a session: that of the
\* page the session was attached to.
TargetIdOf(session) ==
    IF \E id \in DOMAIN contexts :
           contexts[id].cdpTarget = session /\ contexts[id].parent = "null"
    THEN CHOOSE id \in DOMAIN contexts :
             contexts[id].cdpTarget = session /\ contexts[id].parent = "null"
    ELSE "unknown"

\* onContextDestroyed, the listener of close: the event of the context's
\* target resolves the promise and takes the listener off.
onContextDestroyed(targetId) ==
    /\ closeListener' =
           IF closeListener.state = "listening"
              /\ closeListener.targetId = targetId
           THEN [closeListener EXCEPT !.state = "resolved"]
           ELSE closeListener
    /\ UNCHANGED bidiCall

\* ------------------------------------------- BidiServerRunner (part_002)
\* The text of a message is told by what JSON.parse makes of it: no JSON,
\* the JSON null, or an object with or without an id and with a method.
Garbage == [Undefined EXCEPT !.text = "garbage"]
NullText == [Undefined EXCEPT !.text = "null"]
ObjectTexts ==
    [text : {"object"}, id : {"undefined", "1", "2"},
     method : {"browser.close", "session.status"}]
Texts == {Garbage, NullText} \cup ObjectTexts
Messages ==
    [type : {"utf8"}, utf8Data : Texts]
        \cup {[type |-> "binary", utf8Data |-> Undefined]}

\* String({}): what JSON.parse is given when it is handed an object.
ObjectObject == [Undefined EXCEPT !.text = "[object Object]"]

\* JSON.parse: a SyntaxError, null, or the object.
JSONparse(text) ==
    IF text.text = "null" THEN [kind |-> "null", id |-> "undefined",
                                method |-> "undefined"]
    ELSE IF text.text = "object"
    THEN [kind |-> "object", id |-> text.id, method |-> text.method]
    ELSE [kind |-> "SyntaxError", id |-> "undefined", method |-> "undefined"]

\* JSON.stringify: a key whose value is undefined is left out.
JSONstringify(object) ==
    [key \in DOMAIN object |->
        IF object[key] = "undefined" THEN "absent" ELSE object[key]]

\* #getErrorResponse with an id that is always there.
getErrorResponseWithNullId(plainCommandData, errorCode, errorMessage) ==
    [type |-> "error", id |-> "null", error |-> errorCode,
     message |-> errorMessage]

\* #getErrorResponse: the payload is parsed again for its id.
getErrorResponse(plainCommandData, errorCode, errorMessage) ==
    LET commandData == JSONparse(plainCommandData)
        commandId == IF commandData.kind = "object" THEN commandData.id
                     ELSE "undefined"
    IN [type |-> "error", id |-> commandId, error |-> errorCode,
        message |-> errorMessage]

\* #sendClientMessage of an object.
sendClientMessage(sent, object) == Append(sent, JSONstringify(object))

\* #respondWithError as the message handler calls it: with {} as the payload.
respondWithError(sent, errorCode, errorMessage) ==
    sendClientMessage(sent,
        getErrorResponse(ObjectObject, errorCode, errorMessage))

\* MessageTransport.setOnMessage.
setOnMessage ==
    /\ Len(handlers) < MaxHandlers
    /\ handlers' = Append(handlers, <<>>)
    /\ UNCHANGED <<lastMessage, messageCount, closeCalls, clientMessages>>
    /\ UNCHANGED outsideRunner

\* MessageTransport.onMessage: every handler is given the string.
onMessage(messageStr) ==
    [h \in DOMAIN handlers |-> Append(handlers[h], messageStr)]

\* What the handler of the connection's messages does with a message.
OutcomeOf(message) ==
    IF message.type # "utf8" THEN "not text"
    ELSE LET parsedCommandData == JSONparse(message.utf8Data)
         IN IF parsedCommandData.kind = "SyntaxError" THEN "not JSON"
            ELSE IF parsedCommandData.kind = "null" THEN "TypeError"
            ELSE IF parsedCommandData.method = "browser.close"
            THEN "browser.close"
            ELSE "forwarded"

\* The handler of connection.on('message') up to its first await.
onConnectionMessage(message) ==
    /\ messageCount < MaxMessages
    /\ messageCount' = messageCount + 1
    /\ lastMessage' = [type |-> message.type, utf8Data |-> message.utf8Data,
                       outcome |-> OutcomeOf(message)]
    /\ clientMessages' =
           CASE OutcomeOf(message) = "not text" ->
                    respondWithError(clientMessages, "invalid argument",
                                     "not supported type")
             [] OutcomeOf(message) = "not JSON" ->
                    respondWithError(clientMessages, "invalid argument",
                                     "Cannot parse data as JSON")
             [] OTHER -> clientMessages
    /\ closeCalls' =
           IF OutcomeOf(message) = "browser.close"
           THEN Append(closeCalls,
                       [id |-> JSONparse(message.utf8Data).id,
                        done |-> FALSE])
           ELSE closeCalls
    /\ handlers' = IF OutcomeOf(message) = "forwarded"
                   THEN onMessage(message.utf8Data)
                   ELSE handlers
    /\ UNCHANGED outsideRunner

\* The promise of closeBrowserDelegate() of a browser.close is resolved.
closeBrowserDelegate(i) ==
    /\ i \in DOMAIN closeCalls
    /\ ~closeCalls[i].done
    /\ closeCalls' = [closeCalls EXCEPT ![i].done = TRUE]
    /\ UNCHANGED <<lastMessage, messageCount, handlers, clientMessages>>
    /\ UNCHANGED outsideRunner

\* The handler of a browser.close after await closeBrowserDelegate().
BrowserCloseAnswered(i) ==
    /\ i \in DOMAIN closeCalls
    /\ closeCalls[i].done
    /\ clientMessages' =
           sendClientMessage(clientMessages,
               [type |-> "success", id |-> closeCalls[i].id,
                error |-> "undefined", message |-> "undefined"])
    /\ closeCalls' = [k \in 1..(Len(closeCalls) - 1) |->
                         IF k < i THEN closeCalls[k] ELSE closeCalls[k + 1]]
    /\ UNCHANGED <<lastMessage, messageCount, handlers>>
    /\ UNCHANGED outsideRunner

\* ------------------------------------ CdpTarget.#setEventListeners
\* The events of the targets' clients: CDP events, named by strings, and
\* other uses of the EventEmitter, which are not.
EventTargets == {[id |-> "A", cdpSessionId |-> 1],
                 [id |-> "B", cdpSessionId |-> 2]}
EventNames ==
    {[string |-> TRUE, name |-> "Page.frameNavigated"],
     [string |-> TRUE, name |-> "Network.requestWillBeSent"],
     [string |-> FALSE, name |-> "symbol"]}

\* The event under its own name.
CdpEventUnprefixed(target, event, params) ==
    [type |-> "event", method |-> event.name,
     params |-> [event |-> event.name, params |-> params,
                 session |-> target.cdpSessionId],
     contextId |-> target.id]

\* The event the listener makes of a CDP event, and the context id it
\* registers it with.
CdpEvent(target, event, params) ==
    [type |-> "event", method |-> "cdp." \o event.name,
     params |-> [event |-> event.name, params |-> params,
                 session |-> target.cdpSessionId],
     contextId |-> target.id]

\* The '*' listener of the target's client.
onCdpClientEvent(target, event, params) ==
    /\ Len(cdpEvents) < MaxEvents
    /\ cdpEvents' = Append(cdpEvents, [target |-> target, event |-> event,
                                       params |-> params])
    /\ registeredEvents' =
           IF ~event.string THEN registeredEvents
           ELSE Append(registeredEvents, CdpEvent(target, event, params))
    /\ UNCHANGED outsideEvents

\* -------------------------------------------------------- specifications
\* The unblock batch of a target that attaches while the client is silent:
\* the client's commands all come before the attach.
NextUnblock ==
    \/ ~Created /\ Subscribe
    \/ ~Created /\ Unsubscribe
    \/ \E id \in InterceptIds, phases \in PhaseSets :
           ~Created /\ AddIntercept(id, phases)
    \/ \E id \in InterceptIds : ~Created /\ RemoveIntercept(id)
    \/ \E n \in 0..MaxScripts : CreateTarget(n)
    \/ \E c \in SimpleCommands, o \in Outcomes : BatchResponse(c, o)
    \/ \E o \in Outcomes : ScriptResponse(o)
    \/ \E t \in BagToSet(tasks), o \in Outcomes : TaskResponse(t, o)

Spec == Init /\ [][NextUnblock]_vars

\* The client and the browser's Network/Fetch side while the answers to the
\* plain commands and script installs of the batch are still outstanding.
NextNetwork ==
    \/ Subscribe
    \/ Unsubscribe
    \/ \E id \in InterceptIds, phases \in PhaseSets : AddIntercept(id, phases)
    \/ \E id \in InterceptIds : RemoveIntercept(id)
    \/ \E n \in 0..MaxScripts : CreateTarget(n)
    \/ \E t \in BagToSet(tasks), o \in Outcomes : TaskResponse(t, o)
    \/ \E r \in Requests : RequestPaused(r)
    \/ \E r \in Requests : RequestContinued(r)
    \/ \E r \in Requests : RequestDisposed(r)

SpecNetwork == Init /\ [][NextNetwork]_vars

\* NetworkStorage with its targets: the client adds and removes intercepts
\* (the id 0 is one no addIntercept ever returned), targets register and
\* answer.  An intercept's url patterns play no part here, and its phases
\* add up over the intercepts, so each intercept is given one phase.
SyncValues == [phases : {{ph} : ph \in Phases}, urlPatterns : {<<>>}]
SyncOutcomes == {"ok", "other"}

NextStorage ==
    \/ \E t \in StorageTargetIds : onCdpTargetCreated(t)
    \/ \E value \in SyncValues : addIntercept(value)
    \/ \E id \in 0..Len(addCalls) : removeIntercept(id)
    \/ \E id \in 1..MaxCalls, t \in StorageTargetIds, o \in SyncOutcomes :
           AddAnswered(id, t, o)
    \/ \E k \in 1..MaxCalls, t \in StorageTargetIds, o \in SyncOutcomes :
           RemoveAnswered(k, t, o)

SpecStorage == Init /\ [][NextStorage]_vars

\* The registry while requests are matched against it, no target attached:
\* intercepts with and without url patterns are added and removed, and
\* requestBlockedBy is asked about urls and phases, absent ones included.
BlockPhaseSets == {{"authRequired"}, {"beforeRequestSent", "responseStarted"}}
BlockValues == [phases : BlockPhaseSets, urlPatterns : UrlPatternLists]

NextBlockedBy ==
    \/ \E value \in BlockValues :
           Len(addCalls) < MaxRegistered /\ addIntercept(value)
    \/ \E id \in 1..Len(addCalls) : removeIntercept(id)
    \/ \E url \in Urls \cup {"undefined"}, phase \in Phases \cup {"undefined"} :
           requestBlockedBy(url, phase)

SpecBlockedBy == Init /\ [][NextBlockedBy]_vars

\* The processor and the pages of the browser: page and iframe targets
\* attach (the mapper's own tab among them) and detach, frames attach and
\* detach.  A frame is never its own parent.  For a page or iframe target
\* the handler reads the parent client only to detach the mapper's own tab,
\* so the events are taken as received on the browser client.
ContextAttachInputs ==
    (ContextTypes \X ContextIds) \cup {<<"page", selfTargetId>>}
DetachReasons == {"remove", "swap"}

NextContexts ==
    /\ UNCHANGED commandVars
    /\ \/ \E input \in ContextAttachInputs :
              handleAttachedToTargetEvent(input[1], input[2], "absent", Browser)
       \/ \E s \in Sessions : handleDetachedFromTargetEvent(s)
       \/ \E frameId \in ContextIds, parentFrameId \in ContextIds :
              frameId # parentFrameId
                  /\ handleFrameAttachedEvent(frameId, parentFrameId)
       \/ \E frameId \in ContextIds, reason \in DetachReasons :
              handleFrameDetachedEvent(frameId, reason)

SpecContexts == Init /\ [][NextContexts]_vars

\* The processor and the user contexts: pages attach in the browser's default
\* browser context, in one of the user's, or with none told; frames attach
\* under them and detach.
UserContextPageIds == {"A", "B"}
AttachedBrowserContextIds == BrowserContextIds \cup {"absent"}

NextUserContexts ==
    /\ UNCHANGED commandVars
    /\ \/ \E targetId \in UserContextPageIds, b \in AttachedBrowserContextIds :
              handleAttachedToTargetEvent("page", targetId, b, Browser)
       \/ \E s \in Sessions : handleDetachedFromTargetEvent(s)
       \/ \E frameId \in ContextIds, parentFrameId \in ContextIds :
              frameId # parentFrameId
                  /\ handleFrameAttachedEvent(frameId, parentFrameId)
       \/ \E frameId \in ContextIds : handleFrameDetachedEvent(frameId, "remove")

SpecUserContexts == Init /\ [][NextUserContexts]_vars

\* The storage and the requests of two sessions: the browser sends the
\* events of requests in any order, pauses requests, asks for credentials,
\* and detaches the sessions.
BlockingSets == {{}, {"i1"}}

NextRequests ==
    \/ \E s \in RequestSessions, id \in RequestIds, attempt \in Attempts :
           onRequestWillBeSent(s, id, attempt)
    \/ \E s \in RequestSessions, id \in RequestIds, attempt \in Attempts :
           onRequestWillBeSentExtraInfo(s, id, attempt)
    \/ \E event \in ResponseEvents, s \in RequestSessions, id \in RequestIds :
           onResponseEvent(event, s, id)
    \/ \E s \in RequestSessions, id \in RequestIds, f \in FetchIds :
           handleNetworkInterception(s, id, f)
    \/ \E s \in RequestSessions, f \in FetchIds, blocking \in BlockingSets :
           handleAuthInterception(s, f, blocking)
    \/ \E s \in RequestSessions : onDetachedFromTarget(s)

SpecRequests == Init /\ [][NextRequests]_vars

\* The storage and the requests that are redirected, paused and asked for
\* credentials.
NextRedirects ==
    \/ \E s \in RequestSessions, id \in RequestIds, attempt \in Attempts :
           onRequestWillBeSent(s, id, attempt)
    \/ \E s \in RequestSessions, id \in RequestIds :
           onRequestWillBeSentExtraInfo(s, id, 1)
    \/ \E s \in RequestSessions, id \in RequestIds, f \in FetchIds :
           handleNetworkInterception(s, id, f)
    \/ \E s \in RequestSessions, f \in FetchIds, blocking \in BlockingSets :
           handleAuthInterception(s, f, blocking)
    \/ \E s \in RequestSessions : onDetachedFromTarget(s)

SpecRedirects == Init /\ [][NextRedirects]_vars

\* browsingContext.create: pages attach in the default and in another user
\* context, their documents load, the client calls create and the browser
\* answers Target.createTarget.
CommandPageIds == {"A", "B"}
CommandContextIds == CommandPageIds \cup {"C"}
CommandOutcomes == {"ok", "no browser context", "other"}

NextCreate ==
    \/ \E targetId \in CommandPageIds, b \in {"absent", "uc1"} :
           /\ handleAttachedToTargetEvent("page", targetId, b, Browser)
           /\ UNCHANGED commandVars
    \/ \E id \in CommandPageIds : LifecycleLoaded(id)
    \/ \E type \in {"tab", "window"},
          referenceContext \in CommandPageIds \cup {"undefined"},
          userContext \in {"undefined", "uc1"} :
           create(type, referenceContext, userContext)
    \/ \E outcome \in CommandOutcomes, targetId \in CommandPageIds :
           CreateTargetAnswered(outcome, targetId)
    \/ CreateReturns

SpecCreate == Init /\ [][NextCreate]_vars

\* browsingContext.close in both processors: pages attach and detach, the
\* client calls close and the browser answers the CDP command.
NextClose ==
    \/ \E targetId \in CommandPageIds :
           /\ handleAttachedToTargetEvent("page", targetId, "absent", Browser)
           /\ UNCHANGED commandVars
    \/ \E s \in Sessions :
           /\ handleDetachedFromTargetEvent(s)
           /\ onContextDestroyed(TargetIdOf(s))
    \/ \E context \in CommandPageIds, promptUnload \in BOOLEAN :
           close(context, promptUnload)
    \/ \E context \in CommandPageIds :
           process_browsingContext_close(context)
    \/ CloseCommandSucceeded
    \/ \E error \in CloseErrors : CloseCommandFailed(error)
    \/ CloseReturns

SpecClose == Init /\ [][NextClose]_vars

\* The commands of top-level contexts: a page and its frame attach, the
\* client calls create, activate, setViewport and close on either, and the
\* browser answers.
NextTopLevel ==
    \/ /\ handleAttachedToTargetEvent("page", "A", "absent", Browser)
       /\ UNCHANGED commandVars
    \/ /\ handleFrameAttachedEvent("C", "A")
       /\ UNCHANGED commandVars
    \/ \E type \in {"tab", "window"}, referenceContext \in {"A", "C"} :
           create(type, referenceContext, "undefined")
    \/ CreateTargetAnswered("other", "A")
    \/ \E context \in {"A", "C"} : activate(context)
    \/ \E context \in {"A", "C"} : setViewport(context)
    \/ \E outcome \in {"ok", "other"} : CommandAnswered(outcome)
    \/ \E context \in {"A", "C"}, promptUnload \in BOOLEAN :
           close(context, promptUnload)
    \/ \E context \in {"A", "C"} : process_browsingContext_close(context)
    \/ \E error \in CloseErrors : CloseCommandFailed(error)

SpecTopLevel == Init /\ [][NextTopLevel]_vars

\* The server runner: handlers are set on the transport, messages come on
\* the connection, the browser is closed and browser.close is answered.
NextRunner ==
    \/ setOnMessage
    \/ \E message \in Messages : onConnectionMessage(message)
    \/ \E i \in 1..MaxMessages : closeBrowserDelegate(i)
    \/ \E i \in 1..MaxMessages : BrowserCloseAnswered(i)

SpecRunner == Init /\ [][NextRunner]_vars

\* The clients of two targets emit events.
NextEvents ==
    \E target \in EventTargets, event \in EventNames, params \in {"p1", "p2"} :
        onCdpClientEvent(target, event, params)

SpecEvents == Init /\ [][NextEvents]_vars

\* The processor and the targets that are no contexts: workers of a page,
\* shared workers, targets of other types and the mapper's own tab attach;
\* execution contexts are created; the release commands are answered.
WorkerAttachInputs ==
    {<<"page", "A">>, <<"page", selfTargetId>>}
        \cup ((TargetTypes \ ContextTypes) \X {"w"})

NextWorkers ==
    /\ UNCHANGED commandVars
    /\ \/ \E input \in WorkerAttachInputs, parent \in {Browser} \cup Sessions :
              handleAttachedToTargetEvent(input[1], input[2], "absent", parent)
       \/ \E s \in Sessions, o \in SyncOutcomes : ReleaseAnswered(s, o)
       \/ \E s \in Sessions, id \in {"A", "null"} :
              ExecutionContextCreated(s, id, "u1")
       \/ \E s \in Sessions : handleDetachedFromTargetEvent(s)

SpecWorkers == Init /\ [][NextWorkers]_vars

\* The realms of targets: a page and the workers under it, their execution
\* contexts, preload scripts, crashes and detachments.
UniqueIds == {"u1", "u2"}
RealmAttachInputs ==
    {<<"page", "A">>, <<"worker", "w">>, <<"shared_worker", "w">>}

NextRealms ==
    /\ UNCHANGED commandVars
    /\ \/ \E input \in RealmAttachInputs, parent \in {Browser} \cup Sessions :
              handleAttachedToTargetEvent(input[1], input[2], "absent", parent)
       \/ \E s \in Sessions, id \in {"A", "null"}, uniqueId \in UniqueIds :
              ExecutionContextCreated(s, id, uniqueId)
       \/ \E s \in Sessions : handleDetachedFromTargetEvent(s)
       \/ \E s \in Sessions : handleTargetCrashedEvent(s)
       \/ PreloadScriptInstalled("A")

SpecRealms == Init /\ [][NextRealms]_vars

\* ============================================================ properties
\* ------------------------------------------------------ the unblock batch

\* Some command the batch sent, directly or inside one of its composite
\* entries, has not been answered yet.
BatchInFlight ==
    \/ \E c \in SimpleCommands : batch[c] = "pending"
    \/ scripts > 0
    \/ \E t \in BagToSet(tasks) : t.origin = "unblock"

BatchSettled == batchPromise \in {"fulfilled"} \cup ErrorKinds

\* C1: Runtime.runIfWaitingForDebugger is sent only once every other entry of
\* the unblock batch (the plain commands, the Network/Fetch synchronisation,
\* the preload-script installs) has completed or been skipped.
RunAfterPrerequisites ==
    batch["Runtime.runIfWaitingForDebugger"] # "unsent"
        => \A e \in Prerequisites : batch[e] = "settled"

\* C2, as stated: unblocked is resolved only when no command of the batch is
\* still in flight.
UnblockedAfterEveryEntry ==
    unblocked # "pending" => ~BatchInFlight

\* C2, amended: unblocked leaves pending only when the batch has settled, and
\* a batch that settled without a rejection has no command in flight: every
\* entry completed.  (A batch settled by a rejection may have.)
UnblockedAfterAllOrFirstFailure ==
    /\ unblocked # "pending" => BatchSettled
    /\ batchPromise = "fulfilled" =>
           /\ \A e \in BatchEntries : batch[e] = "settled"
           /\ ~BatchInFlight

UnblockedAfterAllWitness ==
    /\ unblocked = "success"
    /\ batchPromise = "fulfilled"
    /\ \A e \in BatchEntries : batch[e] = "settled"

\* C3: unblocked is resolved exactly once, whatever the outcome of the batch:
\* never a second time, and it is resolved as soon as the batch has settled.
ResolvedExactlyOnce ==
    /\ resolveCount <= 1
    /\ BatchSettled <=> resolveCount = 1
    /\ unblocked # "pending" <=> resolveCount = 1

\* Resolved by a failure, the rest of the batch answered afterwards.
ResolvedOnceWitness ==
    /\ resolveCount = 1
    /\ batchPromise = "other"
    /\ ~BatchInFlight
    /\ \A e \in BatchEntries : batch[e] = "settled"

\* C4, as stated: when a step of the batch, enabling Network or Fetch
\* included, failed with an error that is not a close error and none failed
\* with a close error, unblocked resolves with kind 'error'.
AnyOtherFailureIsError ==
    (batchPromise = "fulfilled" /\ swallowed = {"other"}) => unblocked = "error"

\* C4, amended: the first rejection to reach the batch decides: a close error
\* gives 'success', any other error gives 'error', no rejection gives
\* 'success'.  The failures of Network.enable and Fetch.enable are caught
\* inside toggleNetwork and are not rejections of the batch.
FirstRejectionDecides ==
    /\ batchPromise = "pending" => unblocked = "pending"
    /\ batchPromise = "fulfilled" => unblocked = "success"
    /\ batchPromise = "close" => unblocked = "success"
    /\ batchPromise = "other" => unblocked = "error"

FirstRejectionWitness ==
    /\ batchPromise = "fulfilled"
    /\ "other" \in swallowed
    /\ unblocked = "success"

\* --------------------------------------------- Network and Fetch toggling

\* No Network/Fetch command is in flight and no deferred disable is waiting.
Quiescent == tasks = EmptyBag /\ waiters = <<>> /\ paused = {}

\* The command the call t is parked on is sent in this step.
Sends(t) == CopiesIn(t, tasks') > CopiesIn(t, tasks)

FetchCommands == {"Fetch.enable", "Fetch.disable"}

\* C5: when the handling of a subscription or intercept change leaves the
\* target quiescent and no subscription covers the network module, the
\* Network domain and the Fetch domain are both disabled on the target.
NoSubscriptionDisablesDomains ==
    [][(commands' # commands /\ Created /\ Quiescent' /\ ~subscribed')
           => (~cdpNetwork' /\ ~cdpFetch')]_vars

\* C6: Fetch.enable is sent only when the browser has acknowledged a
\* Network.enable of the target and no Network.disable followed it.
FetchEnableAfterNetworkAck ==
    [][\A t \in BagToSet(tasks') :
           (t.pc = "Fetch.enable" /\ Sends(t))
               => /\ cdpNetwork'
                  /\ \A u \in BagToSet(tasks') : u.pc # "Network.disable"]_vars

\* The command the call t was parked on is answered in this step.
Answered(t) == CopiesIn(t, tasks') < CopiesIn(t, tasks)

\* C7: a Fetch command that fails leaves the recorded fetch stages at the
\* value they had before it was sent.  For Fetch.disable, which is sent
\* when some stage is recorded as active: when the command is answered and
\* the Fetch domain of the target is still enabled, the stages are not
\* recorded as all inactive.  (Stated for a target whose Network domain is
\* enabled, with no other Network/Fetch command in flight.)
FailedDisableKeepsStages ==
    [][\A t \in BagToSet(tasks) :
           (/\ t.pc = "Fetch.disable" /\ Answered(t)
            /\ tasks = SetToBag({t})
            /\ cdpNetwork /\ cdpFetch /\ cdpFetch')
               => fetchDomainStages' # NoStages]_vars

DeferredDisableNotLost ==
    [][(/\ waiters # <<>>
        /\ tasks = EmptyBag
        /\ networkDomainEnabled = subscribed
        /\ fetchDomainStages # NoStages
        /\ intercepts = <<>> /\ intercepts' = <<>>
        /\ paused # {} /\ paused' = {})
           => /\ fetchDomainStages' = NoStages
              /\ \E t \in BagToSet(tasks') : t.pc = "Fetch.disable"]_vars

\* C10: a Fetch.enable is sent for a call whose desired stages differ from
\* the recorded ones and have an active stage, with Network recorded as
\* enabled; it carries the Request pattern iff the request or the auth stage
\* is desired, the Response pattern iff the response stage is, nothing else,
\* and handleAuthRequests equal to the auth stage.  A call whose desired
\* stages equal the recorded ones sends no Fetch command, and a call that
\* finds Network recorded as enabled and an active desired stage that
\* differs from the recorded ones sends the Fetch.enable at once.
FetchEnableCarriesStages ==
    [][/\ \A t \in BagToSet(tasks') :
              (t.pc = "Fetch.enable" /\ Sends(t)) =>
                  /\ networkDomainEnabled'
                  /\ t.stages # NoStages
                  /\ ("Request" \in t.patterns) <=> (t.stages.request \/ t.stages.auth)
                  /\ ("Response" \in t.patterns) <=> t.stages.response
                  /\ t.patterns \subseteq {"Request", "Response"}
                  /\ t.handleAuthRequests = t.stages.auth
                  /\ fetchDomainStages' = t.stages
       /\ \A t \in BagToSet(tasks') :
              (t.pc \in FetchCommands /\ Sends(t)) => t.fetchChanged
       /\ (commands' # commands /\ Created) =>
              \A t \in BagToSet(tasks') :
                  Sends(t) =>
                      /\ t.stages = getInterceptionStages(intercepts')
                      /\ t.fetchChanged <=> (t.stages # fetchDomainStages)
       /\ (/\ commands' # commands /\ Created /\ networkDomainEnabled
           /\ getInterceptionStages(intercepts') # NoStages
           /\ getInterceptionStages(intercepts') # fetchDomainStages) =>
              \E t \in BagToSet(tasks') :
                  /\ t.pc = "Fetch.enable" /\ Sends(t)
                  /\ t.stages = getInterceptionStages(intercepts')]_vars

\* A Fetch.enable for the auth stage alone is in flight.
AuthOnlyEnableWitness ==
    \E t \in BagToSet(tasks) :
        /\ t.pc = "Fetch.enable"
        /\ t.stages = [request |-> FALSE, response |-> FALSE, auth |-> TRUE]
        /\ t.patterns = {"Request"}
        /\ t.handleAuthRequests

\* --------------------------------------------------------- NetworkStorage

\* The removeIntercept calls made with the id, in the order they were made.
RemovalsOf(id) == SelectSeq(removeCalls, LAMBDA c : c.intercept = id)

\* C11, as stated: for every id addIntercept generated, the first
\* removeIntercept with it succeeds and every later one fails with
\* NoSuchIntercept.
FirstRemoveSucceeds ==
    \A id \in DOMAIN addCalls :
        LET calls == RemovalsOf(id)
        IN \A k \in DOMAIN calls :
               addCalls[id].status = "returned" =>
               IF k = 1 THEN calls[k].status \in {"pending", "ok"}
               ELSE calls[k].status = NoSuchIntercept

\* C11, amended: the first removeIntercept with the id removes the intercept
\* and does not fail with NoSuchIntercept: it succeeds, or fails with the
\* error of a target that refused the synchronisation.  Every later one
\* fails with NoSuchIntercept.  The ids no removeIntercept was called with
\* stay registered with their value.
FirstRemoveRemoves ==
    /\ \A id \in DOMAIN addCalls :
           LET calls == RemovalsOf(id)
           IN \A k \in DOMAIN calls :
                  IF k = 1 THEN calls[k].status \in {"pending", "ok", "failed"}
                  ELSE calls[k].status = NoSuchIntercept
    /\ DOMAIN interceptMap = {id \in DOMAIN addCalls : RemovalsOf(id) = <<>>}
    /\ \A id \in DOMAIN interceptMap : interceptMap[id] = addCalls[id].value

\* An id addIntercept returned was removed twice, the first time with the
\* targets synchronised.
RemovedTwiceWitness ==
    \E id \in DOMAIN addCalls :
        /\ addCalls[id].status = "returned"
        /\ addCalls[id].targets # {}
        /\ Len(RemovalsOf(id)) = 2
        /\ RemovalsOf(id)[1].status = "ok"
        /\ RemovalsOf(id)[2].status = NoSuchIntercept

\* C12: removeIntercept with an id that is not registered fails with
\* NoSuchIntercept and the message "Intercept '<id>' does not exist."; it
\* leaves the registry and the interception stages as they are and calls no
\* target.
RemoveOfAbsentId ==
    [][\A id \in 0..MaxCalls :
           (Len(removeCalls') > Len(removeCalls)
                /\ removeCalls'[Len(removeCalls')].intercept = id
                /\ id \notin DOMAIN interceptMap)
               => /\ removeCalls'[Len(removeCalls')].status = "no such intercept"
                  /\ removeCalls'[Len(removeCalls')].message
                         = <<"Intercept '", id, "' does not exist.">>
                  /\ removeCalls'[Len(removeCalls')].waiting = {}
                  /\ interceptMap' = interceptMap
                  /\ interceptionStages' = interceptionStages
                  /\ targetFetch' = targetFetch
                  /\ addCalls' = addCalls]_vars

\* An unknown id was refused while intercepts are registered and targets
\* could have been called.
RefusedWitness ==
    /\ removeCalls # <<>>
    /\ removeCalls[Len(removeCalls)].intercept = 0
    /\ removeCalls[Len(removeCalls)].status = NoSuchIntercept
    /\ interceptMap # <<>>
    /\ storageTargets # {}

\* The stages in effect on a target cover the phases.
Covers(stages, phases) ==
    /\ "beforeRequestSent" \in phases => stages.request
    /\ "responseStarted" \in phases => stages.response
    /\ "authRequired" \in phases => stages.auth

\* C13: when addIntercept returns its id, every target that was registered
\* when it was called has acknowledged a synchronisation that puts the
\* intercept's phases into effect.
AddReturnsAfterTargets ==
    [][\A id \in DOMAIN addCalls' :
           (addCalls'[id].status = "returned"
                /\ (id \notin DOMAIN addCalls \/ addCalls[id].status = "pending"))
               => \A t \in addCalls'[id].targets :
                      Covers(targetFetch'[t], addCalls'[id].value.phases)]_vars

\* C14: the interception stages held by the storage are the disjunction over
\* the registered intercepts, all false for an empty registry.
StagesAreDisjunction ==
    /\ interceptionStages.request =
           (\E id \in DOMAIN interceptMap :
                "beforeRequestSent" \in interceptMap[id].phases)
    /\ interceptionStages.response =
           (\E id \in DOMAIN interceptMap :
                "responseStarted" \in interceptMap[id].phases)
    /\ interceptionStages.auth =
           (\E id \in DOMAIN interceptMap :
                "authRequired" \in interceptMap[id].phases)
    /\ interceptMap = <<>> => interceptionStages = NoStages

\* Two intercepts were added and one of them removed, all calls completed.
StagesAfterRemoveWitness ==
    /\ Len(addCalls) = 2
    /\ Len(removeCalls) = 1
    /\ removeCalls[1].status = "ok"
    /\ \A id \in DOMAIN addCalls : addCalls[id].status = "returned"
    /\ interceptionStages # NoStages
    /\ interceptionStages # addCalls[1].stages \/ interceptionStages # addCalls[2].stages


\* C15: requestBlockedBy returns exactly the ids of the registered intercepts
\* whose phases contain the phase and whose url patterns are none or contain
\* one that matches the request's url; it returns the empty set for a request
\* without url and for a call without phase; it leaves the registry as it is.
BlockedByIsTheMatchingSet ==
    [][blockedBy' # blockedBy =>
           /\ blockedBy'.result =
                  IF blockedBy'.url = "undefined" \/ blockedBy'.phase = "undefined"
                  THEN {}
                  ELSE {id \in DOMAIN interceptMap :
                           /\ blockedBy'.phase \in interceptMap[id].phases
                           /\ \/ interceptMap[id].urlPatterns = <<>>
                              \/ \E k \in DOMAIN interceptMap[id].urlPatterns :
                                     matchUrlPattern(
                                         interceptMap[id].urlPatterns[k],
                                         blockedBy'.url)}
           /\ interceptMap' = interceptMap]_vars

\* A request was found blocked by an intercept without patterns and not by
\* a registered one whose pattern does not match it.
BlockedByWitness ==
    /\ \E id \in blockedBy.result \cap DOMAIN interceptMap :
           interceptMap[id].urlPatterns = <<>>
    /\ \E id \in DOMAIN interceptMap \ blockedBy.result :
           /\ blockedBy.phase \in interceptMap[id].phases
           /\ interceptMap[id].urlPatterns # <<>>

\* ------------------------------------------------ BrowsingContextProcessor

\* The step handles a Target.attachedToTarget event.
AttachStep == lastEvent'.name = "Target.attachedToTarget"

\* The step leaves a new top-level context under the target id, on the
\* CdpTarget of the new session, and every other context as it was.
OneNewContext ==
    /\ lastEvent'.targetId \notin DOMAIN contexts
    /\ DOMAIN contexts' = DOMAIN contexts \cup {lastEvent'.targetId}
    /\ \A id \in DOMAIN contexts : contexts'[id] = contexts[id]
    /\ contexts'[lastEvent'.targetId].parent = "null"
    /\ contexts'[lastEvent'.targetId].children = {}
    /\ contexts'[lastEvent'.targetId].cdpTarget = lastEvent'.sessionId

\* The step gives the existing context of the target id the CdpTarget of the
\* new session and changes nothing else of the contexts.
OneRebind ==
    /\ lastEvent'.targetId \in DOMAIN contexts
    /\ DOMAIN contexts' = DOMAIN contexts
    /\ \A id \in DOMAIN contexts \ {lastEvent'.targetId} :
           contexts'[id] = contexts[id]
    /\ contexts'[lastEvent'.targetId].parent = contexts[lastEvent'.targetId].parent
    /\ contexts'[lastEvent'.targetId].children
           = contexts[lastEvent'.targetId].children
    /\ contexts'[lastEvent'.targetId].cdpTarget = lastEvent'.sessionId
    /\ contexts[lastEvent'.targetId].cdpTarget # lastEvent'.sessionId

\* C16, as stated: every Target.attachedToTarget event of a page or iframe
\* target results in one new context under the target id, when none existed,
\* or in one rebind of the existing context's CdpTarget; never both and never
\* neither.
AttachMakesOrRebinds ==
    [][(AttachStep /\ lastEvent'.type \in {"page", "iframe"})
           => /\ OneNewContext \/ OneRebind
              /\ ~(OneNewContext /\ OneRebind)]_vars

\* C16, amended: the same for every page or iframe target other than the
\* mapper's own target, with one CdpTarget created for the new session; for
\* the mapper's own target there is neither a new context nor a rebind.
AttachOfOtherMakesOrRebinds ==
    [][(AttachStep /\ lastEvent'.type \in {"page", "iframe"})
           => IF lastEvent'.targetId = "self"
              THEN contexts' = contexts /\ cdpTargets' = cdpTargets
              ELSE /\ OneNewContext \/ OneRebind
                   /\ ~(OneNewContext /\ OneRebind)
                   /\ cdpTargets' = cdpTargets \cup {lastEvent'.sessionId}
                   /\ lastEvent'.sessionId \notin cdpTargets]_vars

\* An iframe target attached for a frame that was a child context with a
\* child of its own, and the context was rebound.
RebindWitness ==
    /\ lastEvent.name = "Target.attachedToTarget"
    /\ lastEvent.type = "iframe"
    /\ lastEvent.targetId \in DOMAIN contexts
    /\ contexts[lastEvent.targetId].parent # "null"
    /\ contexts[lastEvent.targetId].children # {}
    /\ contexts[lastEvent.targetId].cdpTarget = lastEvent.sessionId

\* C17: a Page.frameDetached with reason 'swap' for a context changes no
\* context, and the Target.attachedToTarget that follows it with the
\* context's id as target id leaves the set of context ids, the context's
\* parent and children and every other context as they were; the context's
\* CdpTarget becomes the one created for the new session.
SwapKeepsTheContext ==
    [][/\ (lastEvent'.name = "Page.frameDetached" /\ lastEvent'.reason = "swap")
              => contexts' = contexts /\ cdpTargets' = cdpTargets
       /\ (/\ lastEvent.name = "Page.frameDetached"
           /\ lastEvent.reason = "swap"
           /\ lastEvent.frameId \in DOMAIN contexts
           /\ lastEvent'.name = "Target.attachedToTarget"
           /\ lastEvent'.targetId = lastEvent.frameId)
              => /\ DOMAIN contexts' = DOMAIN contexts
                 /\ \A id \in DOMAIN contexts :
                        /\ contexts'[id].parent = contexts[id].parent
                        /\ contexts'[id].children = contexts[id].children
                        /\ id # lastEvent.frameId
                               => contexts'[id].cdpTarget = contexts[id].cdpTarget
                 /\ contexts'[lastEvent.frameId].cdpTarget = lastEvent'.sessionId
                 /\ lastEvent'.sessionId \in cdpTargets' \ cdpTargets]_vars

\* A child context with a child of its own was swapped to a new target: the
\* attach came right after the frame's detach with reason 'swap'.
SwapWitness ==
    /\ lastEvent.name = "Target.attachedToTarget"
    /\ lastEvent.swapOf = lastEvent.targetId
    /\ lastEvent.targetId \in DOMAIN contexts
    /\ contexts[lastEvent.targetId].parent \in DOMAIN contexts
    /\ contexts[lastEvent.targetId].children # {}
    /\ contexts[lastEvent.targetId].cdpTarget = lastEvent.sessionId
    /\ contexts[contexts[lastEvent.targetId].parent].cdpTarget # lastEvent.sessionId

\* The number of places of the tree the id is found at: among the top-level
\* contexts and among the children of each context.
Occurrences(id) ==
    Cardinality({c \in DOMAIN contexts : id \in contexts[c].children})
        + (IF id \in DOMAIN contexts /\ contexts[id].parent = "null"
           THEN 1 ELSE 0)

\* C18: after any sequence of Target.attachedToTarget,
\* Target.detachedFromTarget, Page.frameAttached and Page.frameDetached
\* events, every context id appears at most once in the tree.
ContextIdAtMostOnce == \A id \in ContextIds : Occurrences(id) <= 1

\* The step handles the attach of a worker or service worker for whose
\* parent session no realm is stored.
OrphanWorkerAttachStep ==
    /\ AttachStep
    /\ lastEvent'.type \in {"worker", "service_worker"}
    /\ \A r \in realms : r.session # lastEvent'.parent

\* C19, as stated: when Target.attachedToTarget reports a worker or service
\* worker and no realm is found for the parent session, no CdpTarget is
\* created, no realm is created and no CDP command is sent for the session.
OrphanWorkerIsIgnored ==
    [][OrphanWorkerAttachStep
           => /\ cdpTargets' = cdpTargets
              /\ realms' = realms
              /\ workerListeners' = workerListeners
              /\ lastEvent'.sessionId \notin DOMAIN released']_vars

\* C19, amended: no CdpTarget and no realm is created and no listener for
\* the worker's execution contexts is installed, then or later; the session
\* is released like that of an unsupported target: Runtime.runIfWaitingForDebugger
\* is sent on it, to be followed by Target.detachFromTarget on the parent.
OrphanWorkerIsReleased ==
    [][/\ OrphanWorkerAttachStep
              => /\ cdpTargets' = cdpTargets
                 /\ realms' = realms
                 /\ workerListeners' = workerListeners
                 /\ contexts' = contexts
                 /\ lastEvent'.sessionId \in DOMAIN released'
                 /\ released'[lastEvent'.sessionId].command = "sent"
                 /\ released'[lastEvent'.sessionId].parent = lastEvent'.parent
       /\ \A s \in DOMAIN released' :
              /\ s \notin cdpTargets'
              /\ s \notin DOMAIN workerListeners'
              /\ \A r \in realms' : r.session # s]_vars

\* A worker attached under a page's session that has no realm, and was
\* released and detached.
OrphanWorkerWitness ==
    \E d \in detachSent :
        /\ d.params.type \in {"worker", "service_worker"}
        /\ d.on \in cdpTargets
        /\ released[d.params.sessionId].command = "ok"

\* The step handles the attach of the mapper's own target or of a target of
\* a type the mapper does not support.
UnsupportedAttachStep ==
    /\ AttachStep
    /\ \/ lastEvent'.targetId = "self"
       \/ lastEvent'.type \notin {"page", "iframe", "worker", "service_worker",
                                  "shared_worker"}

\* C20: for the mapper's own target and for every target of an unsupported
\* type no CdpTarget, no browsing context and no realm is created, then or
\* later; Runtime.runIfWaitingForDebugger is sent on the target's session at
\* once, and Target.detachFromTarget is sent on the parent session, with the
\* parameters of the attach event, in the step that completes the release
\* command with success and in no other.
ReleaseThenDetach ==
    [][/\ UnsupportedAttachStep
              => /\ cdpTargets' = cdpTargets
                 /\ contexts' = contexts
                 /\ realms' = realms
                 /\ workerListeners' = workerListeners
                 /\ detachSent' = detachSent
                 /\ lastEvent'.sessionId \notin DOMAIN released
                 /\ released'[lastEvent'.sessionId] =
                        [command |-> "sent", parent |-> lastEvent'.parent,
                         params |-> [sessionId |-> lastEvent'.sessionId,
                                     type |-> lastEvent'.type,
                                     targetId |-> lastEvent'.targetId]]
       /\ \A s \in DOMAIN released' :
              /\ s \notin cdpTargets'
              /\ \A r \in realms' : r.session # s
              /\ \A id \in DOMAIN contexts' : contexts'[id].cdpTarget # s
       /\ \A d \in detachSent' \ detachSent :
              /\ released[d.params.sessionId].command = "sent"
              /\ released'[d.params.sessionId].command = "ok"
              /\ d.on = released[d.params.sessionId].parent
       /\ \A s \in DOMAIN released :
              (released[s].command = "sent" /\ released'[s].command = "ok")
                  => [on |-> released[s].parent, params |-> released[s].params]
                         \in detachSent' \ detachSent]_vars

\* The mapper's own target and a target of another type, attached under a
\* page's session, were released; the one was detached after its release
\* succeeded, the other's release failed and it was not detached.
ReleaseThenDetachWitness ==
    /\ \E d \in detachSent :
           /\ d.params.targetId = "self"
           /\ released[d.params.sessionId].command = "ok"
    /\ \E s \in DOMAIN released :
           /\ released[s].params.type = "other"
           /\ released[s].parent \in cdpTargets
           /\ released[s].command = "failed"
           /\ \A d \in detachSent : d.params.sessionId # s

\* ---- Target.detachedFromTarget and Inspector.targetCrashed ----

DetachStep == lastEvent'.name = "Target.detachedFromTarget"

\* The contexts bound to a session.
ContextsOfSession(session) ==
    {id \in DOMAIN contexts : contexts[id].cdpTarget = session}

\* The realms of workers: those made by the listener of #handleWorkerTarget.
WorkerRealmsIn(rs) == {r \in rs : r.context = "null"}

\* C21: on Target.detachedFromTarget of a session, a context bound to the
\* session is disposed and its id leaves the preload scripts' targets, the
\* worker realms staying as they are; else, with a worker realm recorded for
\* the session, every realm of the session leaves the realm storage; else
\* nothing changes. After the step the storage holds no worker realm of the
\* session.
DetachDisposesContextOrWorker ==
    [][DetachStep =>
          LET S == lastEvent'.sessionId IN
          /\ IF ContextsOfSession(S) # {}
             THEN /\ \E id \in ContextsOfSession(S) :
                        /\ id \notin DOMAIN contexts'
                        /\ id \notin preloadTargets'
                        /\ preloadTargets' = preloadTargets \ {id}
                  /\ WorkerRealmsIn(realms') = WorkerRealmsIn(realms)
             ELSE IF S \in workers
             THEN /\ realms' = {r \in realms : r.session # S}
                  /\ contexts' = contexts
                  /\ preloadTargets' = preloadTargets
             ELSE /\ realms' = realms
                  /\ contexts' = contexts
                  /\ preloadTargets' = preloadTargets
          /\ \A r \in WorkerRealmsIn(realms') : r.session # S]_vars

\* The session of a context was detached and the context is gone, a worker
\* realm of another session staying, after the session of a worker with a
\* realm had been detached: both branches have run.
DetachWitness ==
    /\ lastEvent.name = "Target.detachedFromTarget"
    /\ lastEvent.sessionId \in cdpTargets \ DOMAIN workerListeners
    /\ "A" \notin DOMAIN contexts
    /\ WorkerRealmsIn(realms) # {}
    /\ \E s \in workers : \A r \in realms : r.session # s

CrashStep == lastEvent'.name = "Inspector.targetCrashed"

\* C22: on Inspector.targetCrashed on a client, every realm of the client's
\* session is disposed and the realms of every other session stay.
CrashDisposesRealmsOfSession ==
    [][CrashStep =>
          /\ \A r \in realms' : r.session # lastEvent'.sessionId
          /\ \A r \in realms :
                r.session # lastEvent'.sessionId => r \in realms'
          /\ realms' \subseteq realms]_vars

\* A target with realms crashed while another session had realms too.
CrashWitness ==
    /\ lastEvent.name = "Inspector.targetCrashed"
    /\ realms # {}
    /\ \E s \in workers : \A r \in realms : r.session # s
    /\ lastEvent.sessionId \in workers

\* ---- Page.frameAttached, Page.frameDetached and user contexts ----

FrameAttachedStep == lastEvent'.name = "Page.frameAttached"

\* C23: on Page.frameAttached with a stored parent context, a child context
\* with the frame's id, the parent's id as parent, the parent's CdpTarget and
\* the parent's user context is created; with an unknown parent the storage
\* does not change.
FrameAttachedMakesChild ==
    [][FrameAttachedStep =>
          LET f == lastEvent'.frameId
              p == lastEvent'.parentFrameId
          IN IF p \in DOMAIN contexts
             THEN /\ f \in DOMAIN contexts'
                  /\ contexts'[f].parent = p
                  /\ contexts'[f].cdpTarget = contexts[p].cdpTarget
                  /\ contexts'[f].userContext = contexts[p].userContext
                  /\ f \in contexts'[p].children
                  /\ DOMAIN contexts' = DOMAIN contexts \cup {f}
             ELSE contexts' = contexts]_vars

\* A frame was attached under a page of a user's browser context while a
\* page of the default one is stored.
FrameAttachedWitness ==
    /\ lastEvent.name = "Page.frameAttached"
    /\ lastEvent.frameId \in DOMAIN contexts
    /\ contexts[lastEvent.frameId].parent = lastEvent.parentFrameId
    /\ contexts[lastEvent.frameId].userContext = "uc1"
    /\ \E id \in DOMAIN contexts : contexts[id].userContext = "default"

FrameDetachedStep == lastEvent'.name = "Page.frameDetached"

\* C24: on Page.frameDetached with reason swap no context is disposed and
\* the storage does not change; with any other reason the context with the
\* frame's id, when stored, is disposed; an unknown frame id changes nothing.
FrameDetachedDisposesUnlessSwap ==
    [][FrameDetachedStep =>
          IF lastEvent'.reason = "swap"
          THEN contexts' = contexts /\ realms' = realms
          ELSE IF lastEvent'.frameId \in DOMAIN contexts
          THEN /\ lastEvent'.frameId \notin DOMAIN contexts'
               /\ DOMAIN contexts' \subseteq DOMAIN contexts
               /\ contexts' = Disposed(contexts, lastEvent'.frameId)
          ELSE contexts' = contexts /\ realms' = realms]_vars

\* A stored frame was detached with reason remove and is gone, its parent
\* staying.
FrameDetachedWitness ==
    /\ lastEvent.name = "Page.frameDetached"
    /\ lastEvent.reason = "remove"
    /\ lastEvent.known
    /\ lastEvent.frameId \notin DOMAIN contexts
    /\ DOMAIN contexts # {}
    /\ \A id \in DOMAIN contexts : contexts[id].children = {}

\* C25: a top-level context made from Target.attachedToTarget has the user
\* context targetInfo.browserContextId, but 'default' when that is the
\* default user context's id or is absent.
NewContextUserContext ==
    [][(/\ AttachStep
        /\ lastEvent'.type \in ContextTypes
        /\ lastEvent'.targetId # selfTargetId
        /\ lastEvent'.targetId \notin DOMAIN contexts)
          => /\ lastEvent'.targetId \in DOMAIN contexts'
             /\ contexts'[lastEvent'.targetId].userContext =
                    IF lastEvent'.browserContextId
                           \in {"absent", defaultUserContextId}
                    THEN "default"
                    ELSE lastEvent'.browserContextId]_vars

\* Pages of the default browser context and of a user's were attached.
NewContextUserContextWitness ==
    /\ lastEvent.name = "Target.attachedToTarget"
    /\ lastEvent.browserContextId = defaultUserContextId
    /\ lastEvent.targetId \in DOMAIN contexts
    /\ contexts[lastEvent.targetId].userContext = "default"
    /\ contexts[lastEvent.targetId].cdpTarget = lastEvent.sessionId
    /\ \E id \in DOMAIN contexts : contexts[id].userContext = "uc2"

\* ---- worker realms ----

ExecutionContextStep == lastEvent'.name = "Runtime.executionContextCreated"

\* The realm the listener of #handleWorkerTarget makes for the event of the
\* step.
WorkerRealmOfStep(r) ==
    /\ r.session = lastEvent'.sessionId
    /\ r.uniqueId = lastEvent'.uniqueId
    /\ r.context = "null"

\* C26: a worker or service_worker target with a realm of the parent session
\* gets a CdpTarget, and each Runtime.executionContextCreated on its session
\* makes a worker realm owned by the parent's realm; a shared_worker target
\* gets a CdpTarget and its worker realms have no owner; no worker realm of
\* the session is stored before the first such event.
WorkerRealmOnExecutionContext ==
    [][/\ (AttachStep /\ lastEvent'.type \in WorkerTypes
                      /\ findRealm(realms, lastEvent'.parent))
          => /\ lastEvent'.sessionId \in cdpTargets'
             /\ lastEvent'.sessionId \in DOMAIN workerListeners'
             /\ workerListeners'[lastEvent'.sessionId].owners
                    = {lastEvent'.parent}
             /\ \A r \in realms' : r.session # lastEvent'.sessionId
       /\ (AttachStep /\ lastEvent'.type = "shared_worker")
          => /\ lastEvent'.sessionId \in cdpTargets'
             /\ lastEvent'.sessionId \in DOMAIN workerListeners'
             /\ workerListeners'[lastEvent'.sessionId].owners = {}
             /\ \A r \in realms' : r.session # lastEvent'.sessionId
       /\ (ExecutionContextStep
              /\ lastEvent'.sessionId \in DOMAIN workerListeners)
          => /\ \E r \in realms' :
                    /\ WorkerRealmOfStep(r)
                    /\ r.owners = workerListeners[lastEvent'.sessionId].owners
                    /\ r.type = workerListeners[lastEvent'.sessionId].type
                    /\ realms' = realms \cup {r}
             /\ lastEvent'.sessionId \notin workers
                    => \A r \in realms : r.session # lastEvent'.sessionId
       /\ ~ExecutionContextStep
          => WorkerRealmsIn(realms') \subseteq WorkerRealmsIn(realms)]_vars

\* A dedicated worker has two realms owned by the realm of its parent, and a
\* shared worker has a realm without owner.
WorkerRealmWitness ==
    /\ lastEvent.name = "Runtime.executionContextCreated"
    /\ \E r1, r2 \in realms :
          /\ r1.session = r2.session
          /\ r1.uniqueId # r2.uniqueId
          /\ r1.type = "dedicated-worker"
          /\ r1.owners # {} /\ r2.owners = r1.owners
    /\ \E r \in realms : r.type = "shared-worker" /\ r.owners = {}

\* ---- the requests of the storage ----

AuthStep == storageLog'.event = "Fetch.authRequired"

\* C27: on Fetch.authRequired of a fetch id whose request no intercept blocks
\* at authRequired, or whose request the storage does not know, the handler
\* sends Fetch.continueWithAuth with the response Default for that fetch id
\* on the target's client, and tells the client of no blocked request.
UnblockedAuthIsContinued ==
    [][(AuthStep /\ (~storageLog'.known \/ storageLog'.blocking = {}))
          => /\ storageLog'.ops =
                    <<[op |-> "Fetch.continueWithAuth",
                       session |-> storageLog'.session,
                       requestId |-> storageLog'.id,
                       response |-> "Default"]>>
             /\ requestMap' = requestMap
             /\ networkRequests' = networkRequests]_vars

\* Credentials were asked for a fetch id no stored request has, another
\* request being stored, and the browser was answered.
UnblockedAuthWitness ==
    /\ storageLog.event = "Fetch.authRequired"
    /\ ~storageLog.known
    /\ DOMAIN requestMap # {}
    /\ Len(storageLog.ops) = 1
    /\ storageLog.ops[1].op = "Fetch.continueWithAuth"

\* The step handles Network.requestWillBeSent for an id whose stored request
\* is redirecting.
RedirectStep ==
    /\ storageLog'.event = "Network.requestWillBeSent"
    /\ storageLog'.id \in DOMAIN requestMap
    /\ isRedirecting(networkRequests[requestMap[storageLog'.id]])

\* The request objects of an id that are not disposed.
Live(objs, id) ==
    {o \in DOMAIN objs : objs[o].id = id /\ objs[o].disposed = 0}

\* C28: on Network.requestWillBeSent for an id whose stored request is
\* redirecting, that request handles the redirect, then is disposed and
\* removed, then one new request is stored under the id with the redirect
\* count raised by one, and that one takes the event; after the handler one
\* request exists for the id.
RedirectReplacesTheRequest ==
    [][RedirectStep =>
          LET id == storageLog'.id
              old == requestMap[id]
              new == Len(networkRequests) + 1
          IN /\ storageLog'.ops =
                    <<[op |-> "handleRedirect", obj |-> old],
                      [op |-> "dispose", obj |-> old],
                      [op |-> "delete", obj |-> old],
                      [op |-> "create", obj |-> new],
                      [op |-> "onRequestWillBeSentEvent", obj |-> new]>>
             /\ Len(networkRequests') = new
             /\ id \in DOMAIN requestMap' /\ requestMap'[id] = new
             /\ networkRequests'[old].disposed = 1
             /\ networkRequests'[new].id = id
             /\ networkRequests'[new].redirectCount =
                    networkRequests[old].redirectCount + 1
             /\ <<"requestWillBeSent", storageLog'.attempt>>
                    \in networkRequests'[new].merged
             /\ Live(networkRequests', id) = {new}
             /\ \A i \in DOMAIN requestMap \ {id} :
                    i \in DOMAIN requestMap' /\ requestMap'[i] = requestMap[i]]_vars

\* A request was redirected: its second attempt is stored with the redirect
\* count 1, the first one disposed.
RedirectWitness ==
    /\ storageLog.event = "Network.requestWillBeSent"
    /\ storageLog.attempt = 2
    /\ Len(storageLog.ops) = 5
    /\ storageLog.id \in DOMAIN requestMap
    /\ networkRequests[requestMap[storageLog.id]].redirectCount = 1
    /\ \E o \in DOMAIN networkRequests :
          networkRequests[o].id = storageLog.id
              /\ networkRequests[o].disposed = 1

RequestDetachStep == storageLog'.event = "Target.detachedFromTarget"

\* The request objects stored in #requests.
Stored(map) == {map[i] : i \in DOMAIN map}

\* C29: when a session detaches, whatever client its target was attached
\* from, every stored request of the session is disposed once and removed
\* from the table, and the requests of the other sessions are untouched.
DetachDisposesRequestsOfSession ==
    [][RequestDetachStep =>
          \A o \in Stored(requestMap) :
              IF networkRequests[o].session = storageLog'.session
              THEN /\ networkRequests'[o].disposed = 1
                   /\ o \notin Stored(requestMap')
              ELSE /\ networkRequests'[o] = networkRequests[o]
                   /\ o \in Stored(requestMap')]_vars

\* C30: whatever the order of the events of the Network and Fetch domains,
\* at most one request exists per id, and a Network.requestWillBeSentExtraInfo
\* that came before the Network.requestWillBeSent of its attempt is held by
\* the request that takes that Network.requestWillBeSent.
OneRequestPerIdAndExtraInfoMerged ==
    /\ [](\A id \in RequestIds :
             /\ Cardinality(Live(networkRequests, id)) <= 1
             /\ id \in DOMAIN requestMap
                    => requestMap[id] \in Live(networkRequests, id))
    /\ [][(/\ storageLog'.event = "Network.requestWillBeSent"
           /\ <<"requestWillBeSentExtraInfo", storageLog'.attempt>>
                  \in Emitted(storageLog'.id))
             => LET o == requestMap'[storageLog'.id]
                IN /\ <<"requestWillBeSent", storageLog'.attempt>>
                          \in networkRequests'[o].merged
                   /\ <<"requestWillBeSentExtraInfo", storageLog'.attempt>>
                          \in networkRequests'[o].merged]_vars

\* ---- C31
CreateStep == Idle /\ bidiCall'.pc = "awaitCreateTarget"
CreateReturnStep ==
    /\ bidiCall.method = "create"
    /\ bidiCall.pc # "returned"
    /\ bidiCall'.pc = "returned"
CreatedAndLoaded ==
    /\ bidiCall'.result = "{context}"
    /\ bidiCall'.target \in DOMAIN contexts
    /\ contexts[bidiCall'.target].loaded
FirstOfUserContext(browserContextId) ==
    /\ browserContextId # "undefined"
    /\ ~\E id \in DOMAIN contexts :
           contexts[id].userContext = browserContextId

\* C31 as stated: browsingContext.create with type 'tab' sends
\* Target.createTarget with url 'about:blank' and newWindow = false, and it
\* returns {context: <targetId>} only when the context of the returned
\* target is stored and has loaded.
CreateTabSendsNoNewWindow ==
    [][/\ (CreateStep /\ bidiCall'.type = "tab") =>
              /\ Len(bidiCall'.sent) = 1
              /\ bidiCall'.sent[1].method = "Target.createTarget"
              /\ bidiCall'.sent[1].url = "about:blank"
              /\ bidiCall'.sent[1].newWindow = FALSE
       /\ CreateReturnStep => CreatedAndLoaded]_vars

\* C31 amended: browsingContext.create with type 'tab' sends
\* Target.createTarget with url 'about:blank' and with newWindow = false
\* unless the new target is the first context of a user context other than
\* the default one, where newWindow = true; it returns {context: <targetId>}
\* only when the context of the returned target is stored and has loaded.
CreateTabNewWindowOnlyForFirstOfUserContext ==
    [][/\ (CreateStep /\ bidiCall'.type = "tab") =>
              /\ Len(bidiCall'.sent) = 1
              /\ bidiCall'.sent[1].method = "Target.createTarget"
              /\ bidiCall'.sent[1].url = "about:blank"
              /\ bidiCall'.sent[1].newWindow =
                     FirstOfUserContext(bidiCall'.sent[1].browserContextId)
       /\ CreateReturnStep => CreatedAndLoaded]_vars

\* A tab was created as the first context of its user context, in a new
\* window, and create has returned it.
CreateTabWitness ==
    /\ bidiCall.method = "create"
    /\ bidiCall.type = "tab"
    /\ bidiCall.pc = "returned"
    /\ bidiCall.sent[1].newWindow
    /\ bidiCall.result = "{context}"
    /\ bidiCall.target \in DOMAIN contexts

\* ---- C32
Closing == bidiCall.pc \in {"awaitCloseCommand", "awaitDetached"}

\* C32: browsingContext.close of a top-level context always terminates: the
\* wait for Target.detachedFromTarget is bounded, so a close that waits for
\* the event can return without the event being delivered.
CloseWaitIsBounded ==
    (Closing /\ bidiCall.pc = "awaitDetached") => ENABLED CloseReturns

\* ---- C33
ClosingDetachStep ==
    /\ Closing
    /\ bidiCall.context \in DOMAIN contexts
    /\ bidiCall.context \notin DOMAIN contexts'

\* C33: the Target.detachedFromTarget of the context being closed is never
\* missed, whether it is delivered before or after the response of the CDP
\* close command: after it the promise close awaits is resolved.
DetachIsNeverMissed ==
    [][ClosingDetachStep =>
           closeListener' = [targetId |-> bidiCall.context,
                             state |-> "resolved"]]_vars

\* ---- C34
CloseFailedStep ==
    /\ bidiCall.pc = "awaitCloseCommand"
    /\ bidiCall'.pc \in {"returned", "thrown"}

\* C34: when the CDP command of close fails with the generic error code and
\* the message 'Not attached to an active page', close returns the empty
\* success result; every other error is thrown to the caller.
CloseSwallowsNotAttachedOnly ==
    [][CloseFailedStep =>
           IF bidiCall'.error = [code |-> GENERIC_ERROR,
                                 message |-> NotAttached]
           THEN bidiCall'.pc = "returned" /\ bidiCall'.result = "{}"
           ELSE /\ bidiCall'.pc = "thrown"
                /\ bidiCall'.result = "error"]_vars

\* close has swallowed the error of a page that is being destroyed.
CloseSwallowedWitness ==
    /\ bidiCall.method = "close"
    /\ bidiCall.pc = "returned"
    /\ bidiCall.error = [code |-> GENERIC_ERROR, message |-> NotAttached]

\* ---- C35
CallStep == Idle /\ bidiCall' # bidiCall
NonTopLevel(id) == id \in DOMAIN contexts /\ contexts[id].parent # "null"

\* C35: activate, setViewport and close called on a context that is not
\* top-level, and create called with a referenceContext that is not
\* top-level, throw 'invalid argument' with no CDP command sent and the
\* context storage unchanged.
NonTopLevelIsInvalidArgument ==
    [][(CallStep /\ NonTopLevel(bidiCall'.context)) =>
           /\ bidiCall'.pc = "thrown"
           /\ bidiCall'.result = "invalid argument"
           /\ bidiCall'.sent = <<>>
           /\ contexts' = contexts]_vars

\* setViewport was refused for a frame.
NonTopLevelWitness ==
    /\ bidiCall.method = "setViewport"
    /\ bidiCall.context \in DOMAIN contexts
    /\ contexts[bidiCall.context].parent # "null"
    /\ bidiCall.pc = "thrown"
    /\ bidiCall.result = "invalid argument"

\* ---- C36
MessageStep == messageCount' = messageCount + 1
Rejected(message) ==
    \/ message.type # "utf8"
    \/ JSONparse(message.utf8Data).kind = "SyntaxError"
IdReceived(message) ==
    IF message.type = "utf8" /\ JSONparse(message.utf8Data).kind = "object"
       /\ JSONparse(message.utf8Data).id # "undefined"
    THEN JSONparse(message.utf8Data).id
    ELSE "absent"
ErrorSent ==
    /\ Len(clientMessages') = Len(clientMessages) + 1
    /\ clientMessages'[Len(clientMessages')].type = "error"

SuccessSent ==
    /\ Len(clientMessages') = Len(clientMessages) + 1
    /\ clientMessages'[Len(clientMessages')].type = "success"
IsBrowserClose(message) ==
    /\ JSONparse(message.utf8Data).kind = "object"
    /\ JSONparse(message.utf8Data).method = "browser.close"
Parseable(message) ==
    message.type = "utf8" /\ JSONparse(message.utf8Data).kind # "SyntaxError"

\* C40: browser.close is answered by the server runner with {id, type:
\* 'success', result: {}} after the close-browser delegate has completed, and
\* is not given to the handlers of the transport; every other text message
\* that parses as JSON is given unchanged to every handler of the transport,
\* once, in arrival order.
BrowserCloseLocalOthersForwarded ==
    [][/\ SuccessSent =>
              \E i \in DOMAIN closeCalls :
                  /\ closeCalls[i].done
                  /\ clientMessages'[Len(clientMessages')].id
                         = JSONstringify([id |-> closeCalls[i].id]).id
       /\ MessageStep =>
              handlers' =
                  IF Parseable(lastMessage') /\ ~IsBrowserClose(lastMessage')
                  THEN [h \in DOMAIN handlers |->
                           Append(handlers[h], lastMessage'.utf8Data)]
                  ELSE handlers]_vars

\* ---- C37
RECURSIVE RegistrationsOf(_)
RegistrationsOf(events) ==
    IF events = <<>> THEN <<>>
    ELSE LET e == events[Len(events)]
             before == RegistrationsOf(SubSeq(events, 1, Len(events) - 1))
         IN IF ~e.event.string THEN before
            ELSE Append(before,
                     [type |-> "event", method |-> "cdp." \o e.event.name,
                      params |-> [event |-> e.event.name,
                                  params |-> e.params,
                                  session |-> e.target.cdpSessionId],
                      contextId |-> e.target.id])

\* C37: the CDP events of the targets' clients are registered with the
\* EventManager once each, as 'cdp.<event>' events with the session id of
\* the target in their params and under the target's id, in the order of
\* their arrival.
CdpEventsRegisteredInOrder == registeredEvents = RegistrationsOf(cdpEvents)

\* Two events of one target and module were registered, in their order, and
\* an event that is no CDP event was left out.
CdpEventsWitness ==
    /\ Len(cdpEvents) = 3
    /\ Len(registeredEvents) = 2
    /\ registeredEvents[1].contextId = registeredEvents[2].contextId
    /\ registeredEvents[1].method = registeredEvents[2].method
    /\ registeredEvents[1].params.params = "p1"
    /\ registeredEvents[2].params.params = "p2"

\* ---- C38
NetworkCommandInFlight ==
    \E t \in BagToSet(tasks) : t.pc \in {"Network.enable", "Network.disable"}

\* C38: whenever no Network.enable or Network.disable is in flight on the
\* target, #networkDomainEnabled is the state of the Network domain in the
\* browser: true exactly when the last Network command answered with
\* success was Network.enable.
NetworkFlagAgreesWithBrowser ==
    ~NetworkCommandInFlight => networkDomainEnabled = cdpNetwork

\* ---- C39
\* C39: addIntercept is atomic with respect to failure: an intercept whose
\* addIntercept threw, the synchronisation of a target having failed, is not
\* in the registry, and after the failure of the only call made the
\* interception stages are the ones from before the call.
AddInterceptIsAtomic ==
    \A id \in DOMAIN addCalls :
        addCalls[id].status = "failed" =>
            /\ id \notin DOMAIN interceptMap
            /\ (Len(addCalls) = 1 /\ removeCalls = <<>>)
                   => interceptionStages = NoStages

====
